---- MODULE Spec2Model ----
(***************************************************************************)
(* Trigger decoders of speeduino_vw_1600: the dual-wheel and the           *)
(* missing-tooth pattern, the shared RPM estimators, the crank angle       *)
(* interpolation and the ignition end-tooth computation.                   *)
(*                                                                         *)
(* Number representation.  TLC's integers are 32-bit signed.  A C uint32_t *)
(* (unsigned long on the target) is held as the integer of                 *)
(* [-2^31, 2^31) congruent to it modulo 2^32: a value below 2^31 is        *)
(* itself, a value v >= 2^31 is held as v - 2^32 (negative).  The U32      *)
(* operators below compute modulo 2^32 on this representation and compare  *)
(* as unsigned numbers.  16-bit quantities are ordinary integers reduced   *)
(* modulo 2^16 where the code stores them.                                 *)
(***************************************************************************)
EXTENDS Integers, Sequences, FiniteSets, TLC

\* ------------------------------------------------------------------------
\* Unsigned 32-bit arithmetic on the signed representation
\* ------------------------------------------------------------------------

\* Largest signed representative, 2^31 - 1
I32Max == 2147483647

\* Smallest signed representative, -2^31 (UINT32 value 2^31)
I32Min == (-2147483647) - 1

\* 2^16, the modulus of uint16_t
Two16 == 65536

\* a < b as uint32_t
ULt(a, b) == IF (a >= 0) = (b >= 0) THEN a < b ELSE b < 0

\* a <= b as uint32_t
ULe(a, b) == a = b \/ ULt(a, b)

\* a >= b as uint32_t
UGe(a, b) == ~ULt(a, b)

\* a > b as uint32_t
UGt(a, b) == ULt(b, a)

\* (a - b) mod 2^32
USub(a, b) ==
    IF (a >= 0) = (b >= 0) THEN a - b
    ELSE IF a >= 0
         THEN \* b stands for 2^32 + b: the difference is a - b, in [1, 2^32 - 1]
              LET c == I32Max + b
              IN  IF a <= c THEN a - b ELSE ((a - 1) - c) + I32Min
         ELSE \* a stands for 2^32 + a: the difference is 2^32 + a - b
              LET c == I32Min + b
              IN  IF a >= c THEN a - b ELSE ((a - c) + I32Max) + 1

\* (a + b) mod 2^32 for a, b below 2^31
UAddLow(a, b) ==
    IF a <= I32Max - b THEN a + b ELSE (((a - I32Max) + b) - 1) + I32Min

\* (a + b) mod 2^32
UAdd(a, b) ==
    IF (a >= 0) /= (b >= 0) THEN a + b
    ELSE IF a >= 0 THEN UAddLow(a, b)
    ELSE UAddLow(a - I32Min, b - I32Min)

\* a >> 1 as uint32_t
UShr1(a) == IF a >= 0 THEN a \div 2 ELSE ((a \div 2) + I32Max) + 1

\* a >> n as uint32_t
RECURSIVE UShr(_, _)
UShr(a, n) == IF n = 0 THEN a ELSE UShr(UShr1(a), n - 1)

\* (a << n) mod 2^32
RECURSIVE UShl(_, _)
UShl(a, n) == IF n = 0 THEN a ELSE UShl(UAdd(a, a), n - 1)

\* (a * b) mod 2^32, b a non-negative integer (shift and add)
RECURSIVE UMul(_, _)
UMul(a, b) ==
    IF b = 0 THEN 0
    ELSE IF a >= 0 /\ a < 32768 /\ b < 65536 THEN a * b
    ELSE UAdd(IF b % 2 = 1 THEN a ELSE 0, UMul(UAdd(a, a), b \div 2))

\* a / d as uint32_t, d /= 0
UDiv(a, d) ==
    IF d < 0 THEN (IF ULt(a, d) THEN 0 ELSE 1)
    ELSE IF a >= 0 THEN a \div d
    ELSE IF d = 1 THEN a
    ELSE LET h  == UShr1(a)          \* a = 2h + l, h < 2^31
             l  == a % 2
             qh == h \div d
             rh == h % d             \* rh < d <= 2^31 - 1
             \* (2 rh + l) \div d without leaving the 32-bit range
             q2 == IF rh <= (I32Max - l) \div 2
                   THEN (2 * rh + l) \div d
                   ELSE 1            \* d <= 2 rh + l < 2d
         IN  2 * qh + q2

\* The low 16 bits of a uint32_t: the (uint16_t) conversion
U16Of(a) == a % Two16

\* ------------------------------------------------------------------------
\* Program constants and the maths helpers of globals.h / maths.h
\* ------------------------------------------------------------------------

MICROS_PER_SEC == 1000000

MICROS_PER_MIN == 60000000

MICROS_PER_DEG_1_RPM == 166667

MAX_RPM == 18000

UINT16_MAX == 65535

CRANK_SPEED == 0

CAM_SPEED == 1

kCamSpeed == 1

microsPerDegree_Shift == 8

degreesPerMicro_Shift == 15

\* The enumerations of globals.h are held by name
SparkModes == {"IGN_MODE_WASTED", "IGN_MODE_SINGLE", "IGN_MODE_SEQUENTIAL"}

Strokes == {"FOUR_STROKE", "TWO_STROKE"}

SecPatterns == {"SEC_TRIGGER_SINGLE", "SEC_TRIGGER_4_1", "SEC_TRIGGER_POLL", "SEC_TRIGGER_TOYOTA_3"}

\* Bits of decoderState
BIT_DECODER_2ND_DERIV == 0

BIT_DECODER_IS_SEQUENTIAL == 1

BIT_DECODER_HAS_SECONDARY == 3

BIT_DECODER_HAS_FIXED_CRANKING == 4

BIT_DECODER_VALID_TRIGGER == 5

BIT_DECODER_TOOTH_ANG_CORRECT == 6

\* What a division by zero may yield, by the core the firmware is built
\* for: all ones (the software divide of the AVR) or zero (the hardware
\* divider of an ARM core, which does not trap)
DivZeroOutcomes == {0, -1}

\* Whether the build is the one for the AVR
CoreAvr(z) == z = -1

\* C integer division truncates toward zero
CDiv(a, b) == IF (a >= 0) = (b > 0) THEN (IF a >= 0 THEN a \div b ELSE (-a) \div (-b)) ELSE -((IF a >= 0 THEN a ELSE -a) \div (IF b > 0 THEN b ELSE -b))

\* The (int16_t) conversion of an integer
I16Of(x) == LET m == x % Two16 IN IF m >= 32768 THEN m - Two16 ELSE m

\* UDIV_ROUND_CLOSEST(n, d, uint32_t): ((n + d/2) / d) in uint32_t, d /= 0
UDIV_ROUND_CLOSEST(n, d) == UDiv(UAdd(n, UShr1(d)), d)

\* RSHIFT_ROUND(v, s): (v + (1 << (s-1))) >> s in uint32_t
RSHIFT_ROUND(v, s) == UShr(UAdd(v, UShl(1, s - 1)), s)

\* div360(n): n / 360 rounded to nearest
div360(n) == UDIV_ROUND_CLOSEST(n, 360)

\* udiv_32_16_closest(dividend, divisor): the rounded quotient as uint16_t.
\* The AVR build divides in assembly and yields UINT16_MAX for a divisor of
\* zero or a quotient that does not fit 16 bits; the other builds convert
\* the 32-bit quotient
udiv_32_16_closest(n, d, z) ==
    IF d = 0 THEN U16Of(z)
    ELSE IF CoreAvr(z) /\ UGe(UDIV_ROUND_CLOSEST(n, d), Two16) THEN UINT16_MAX
    ELSE U16Of(UDIV_ROUND_CLOSEST(n, d))

\* nudge(min, max, value, nudgeAmount): one step back towards [min, max]
nudge(min, max, value, nudgeAmount) ==
    IF value < min THEN value + nudgeAmount
    ELSE IF value > max THEN value - nudgeAmount
    ELSE value

\* min(a, b)
Min(a, b) == IF a < b THEN a ELSE b

\* ------------------------------------------------------------------------
\* State
\* ------------------------------------------------------------------------

VARIABLES
    configPage2,        \* [perToothIgn, strokes, injLayoutSequential]
    configPage4,        \* [TrigPattern, triggerTeeth, triggerMissingTeeth, TrigSpeed,
                        \*  triggerFilter, StgCycles, useResync, sparkMode, triggerAngle,
                        \*  trigPatternSec, ANGLEFILTER_VVT, vvt2CL0DutyAng]
    configPage6,        \* [vvtEnabled, vvtClosedLoop]
    configPage10,       \* [vvtCL0DutyAng]
    CRANK_ANGLE_MAX,    \* 720 in sequential operation, 360 otherwise
    currentStatus,      \* [hasSync, halfSync, RPM, crankRPM, startRevolutions,
                        \*  syncLossCounter, engineCrank, vvt1Angle, vvt2Angle]
    bootTime,           \* what micros() returned when the decoder was set up
    now,                \* what micros() returns
    decoder,            \* the decoder the handler pointers reference
    curTime, curGap, curTime2, curGap2, targetGap2, curTime3, curGap3,
    toothCurrentCount,
    toothLastToothTime, toothLastMinusOneToothTime,
    toothLastSecToothTime, toothLastMinusOneSecToothTime,
    toothLastThirdToothTime,
    toothOneTime, toothOneMinusOneTime,
    revolutionOne,
    secondaryToothCount, thirdToothCount,
    checkSyncToothCount,
    triggerActualTeeth,
    triggerFilterTime, triggerSecFilterTime, triggerThirdFilterTime,
    triggerToothAngle,  \* the global the decoder functions read
    triggerToothAngle_, \* the DecodersBase member DualWell::triggerSetup writes
    MAX_STALL_TIME,
    decoderState,       \* the set of bits that are set
    revolutionTime, microsPerDegree, degreesPerMicro,
    ignitionEndAngle,   \* ignition1EndAngle .. ignition4EndAngle, set by the main loop
    ignitionEndTooth,   \* ignition1EndTooth .. ignition4EndTooth
    crankAngle,         \* what the last getCrankAngle() call returned
    elapsedTime, lastCrankAngleCalc,
    timingAdjust,       \* the adjustCrankAngle calls of the last accepted primary edge: [channels, crankAngle]
    noiseTicks,         \* how many edges arrived NoiseGap after the event before
    interruptsOff,      \* noInterrupts() is in effect
    mainLoopPc,         \* where the main loop is inside getCrankAngle() / getRPM()
    tempToothCurrentCount, tempRevolutionOne, tempToothLastToothTime,
                        \* the locals of getCrankAngle()
    dataFilter          \* a DataFilter object: [size_, it_ini_, it_end_, q_status_, data_],
                        \* and inserts, the number of queue_insert_data calls so far

configVars == <<configPage2, configPage4, configPage6, configPage10, CRANK_ANGLE_MAX, bootTime, dataFilter>>

priVars == <<curTime, curGap, toothCurrentCount, toothLastToothTime, toothLastMinusOneToothTime, toothOneTime, toothOneMinusOneTime, triggerFilterTime>>

secVars == <<curTime2, curGap2, targetGap2, toothLastSecToothTime, toothLastMinusOneSecToothTime, secondaryToothCount, triggerSecFilterTime>>

setupVars == <<decoder, triggerActualTeeth, triggerToothAngle, triggerToothAngle_, MAX_STALL_TIME, checkSyncToothCount, thirdToothCount>>

revVars == <<revolutionTime, microsPerDegree, degreesPerMicro>>

endToothVars == <<ignitionEndAngle, ignitionEndTooth>>

angleVars == <<crankAngle, elapsedTime, lastCrankAngleCalc>>

thirdVars == <<curTime3, curGap3, toothLastThirdToothTime, triggerThirdFilterTime>>

mainLoopVars == <<interruptsOff, mainLoopPc, tempToothCurrentCount, tempRevolutionOne, tempToothLastToothTime>>

vars == <<configVars, currentStatus, now, noiseTicks, priVars, secVars, setupVars, revolutionOne, decoderState, revVars, endToothVars, angleVars, timingAdjust, thirdVars, mainLoopVars>>

\* Number of ignition channels compiled in
IGN_CHANNELS == 4

Channels == 1..IGN_CHANNELS

\* ------------------------------------------------------------------------
\* Bounds of the model
\* ------------------------------------------------------------------------

\* micros() when the decoder is set up right after power-up
BootMicros == 1000

\* How long before the 32-bit clock wraps a decoder is set up that was
\* left without a signal for over an hour
WrapLead == 15000

\* micros() when the decoder is set up
BootTimes == {BootMicros, -WrapLead}

\* The clock stops advancing MaxTime microseconds after boot
MaxTime == 21000

\* The time from one tooth to the next: a two-tooth wheel at 6000 RPM
ToothGap == 5000

\* The time after which a noise pulse follows an event
NoiseGap == 225

\* How many edges of one run arrive NoiseGap after the event before
MaxNoise == 1

\* The times from one event to an edge
Gaps == {NoiseGap, ToothGap}

\* How far micros() may advance between two reads inside one handler
MicrosSteps == {0, 4}

\* ------------------------------------------------------------------------
\* Universal decoder routines
\* ------------------------------------------------------------------------

\* IsCranking(currentStatus)
IsCranking == currentStatus.RPM < currentStatus.crankRPM /\ currentStatus.startRevolutions = 0

\* HasAnySync(currentStatus): full sync or half sync
HasAnySync == currentStatus.hasSync \/ currentStatus.halfSync

\* The revolution time and its two fixed-point derivatives, as they are
Rev == [revolutionTime |-> revolutionTime, microsPerDegree |-> microsPerDegree, degreesPerMicro |-> degreesPerMicro]

\* SetRevolutionTime(revTime): the three values afterwards; z is what a
\* division by zero yields
SetRevolutionTime(revTime, z) ==
    IF revTime /= revolutionTime
    THEN [revolutionTime |-> revTime,
          microsPerDegree |-> div360(UShl(revTime, microsPerDegree_Shift)),
          degreesPerMicro |-> IF revTime = 0 THEN U16Of(z)
                              ELSE U16Of(UDIV_ROUND_CLOSEST(UShl(360, degreesPerMicro_Shift), revTime))]
    ELSE Rev

\* What SetRevolutionTime(revTime) returns: whether the time changed
SetRevolutionTimeChanged(revTime) == revTime /= revolutionTime

\* clampRpm(rpm)
clampRpm(rpm) == IF rpm >= MAX_RPM THEN currentStatus.RPM ELSE rpm

\* RpmFromRevolutionTimeUs(revTime)
RpmFromRevolutionTimeUs(revTime, z) ==
    IF revTime = 0 THEN clampRpm(U16Of(z))
    ELSE IF ULt(revTime, UINT16_MAX)
         THEN clampRpm(udiv_32_16_closest(MICROS_PER_MIN, revTime, z))
         ELSE clampRpm(U16Of(UDIV_ROUND_CLOSEST(MICROS_PER_MIN, revTime)))

\* The revolution time UpdateRevolutionTimeFromTeeth hands to SetRevolutionTime
RevTimeFromTeethUnshifted(isCamTeeth) == USub(toothOneTime, toothOneMinusOneTime)

RevTimeFromTeeth(isCamTeeth) ==
    UShr(USub(toothOneTime, toothOneMinusOneTime), IF isCamTeeth THEN 1 ELSE 0)

\* UpdateRevolutionTimeFromTeeth(isCamTeeth): whether the revolution time
\* was updated
UpdateRevolutionTimeFromTeethUngated(isCamTeeth) ==
    /\ HasAnySync
    /\ ~IsCranking
    /\ SetRevolutionTimeChanged(RevTimeFromTeeth(isCamTeeth))

UpdateRevolutionTimeFromTeeth(isCamTeeth) ==
    /\ HasAnySync
    /\ ~IsCranking
    /\ toothOneMinusOneTime /= 0
    /\ UGt(toothOneTime, toothOneMinusOneTime)
    /\ SetRevolutionTimeChanged(RevTimeFromTeeth(isCamTeeth))

\* stdGetRPM(isCamTeeth): the RPM returned and the revolution time left
stdGetRPM(isCamTeeth, z) ==
    IF UpdateRevolutionTimeFromTeeth(isCamTeeth)
    THEN LET r == SetRevolutionTime(RevTimeFromTeeth(isCamTeeth), z)
         IN  [ret |-> RpmFromRevolutionTimeUs(r.revolutionTime, z), rev |-> r]
    ELSE [ret |-> currentStatus.RPM, rev |-> Rev]

\* setFilter(curGap): the new triggerFilterTime
setFilterHalved(gap) == UShr(gap, 1)

setFilter(gap) ==
    IF configPage4.triggerFilter = 0 THEN 0
    ELSE IF configPage4.triggerFilter = 1 THEN UShr(gap, 2)
    ELSE IF configPage4.triggerFilter = 2 THEN UShr(gap, 1)
    ELSE IF configPage4.triggerFilter = 3 THEN UShr(UMul(gap, 3), 2)
    ELSE 0

\* The revolution time crankingGetRPM hands to SetRevolutionTime
CrankingRevTimeOneTooth(totalTeeth, isCamTeeth) ==
    UShr(USub(toothLastToothTime, toothLastMinusOneToothTime), IF isCamTeeth THEN 1 ELSE 0)

CrankingRevTime(totalTeeth, isCamTeeth) ==
    UShr(UMul(USub(toothLastToothTime, toothLastMinusOneToothTime), totalTeeth), IF isCamTeeth THEN 1 ELSE 0)

\* Whether crankingGetRPM gets as far as SetRevolutionTime
CrankingGateUnstaged ==
    /\ (currentStatus.hasSync \/ currentStatus.halfSync)
    /\ toothLastMinusOneToothTime /= 0
    /\ UGt(toothLastToothTime, toothLastMinusOneToothTime)

CrankingGate ==
    /\ currentStatus.startRevolutions >= configPage4.StgCycles
    /\ (currentStatus.hasSync \/ currentStatus.halfSync)
    /\ toothLastMinusOneToothTime /= 0
    /\ UGt(toothLastToothTime, toothLastMinusOneToothTime)

\* crankingGetRPM(totalTeeth, isCamTeeth)
crankingGetRPM(totalTeeth, isCamTeeth, z) ==
    IF CrankingGate /\ SetRevolutionTimeChanged(CrankingRevTime(totalTeeth, isCamTeeth))
    THEN LET r == SetRevolutionTime(CrankingRevTime(totalTeeth, isCamTeeth), z)
         IN  [ret |-> RpmFromRevolutionTimeUs(r.revolutionTime, z), rev |-> r]
    ELSE [ret |-> currentStatus.RPM, rev |-> Rev]

\* The channels checkPerToothTiming calls adjustCrankAngle for: the first of
\* the if / else if chain whose end tooth is the current tooth
PerToothChannels(currentTooth) ==
    {c \in Channels : /\ ignitionEndTooth[c] = currentTooth
                      /\ \A j \in Channels : ignitionEndTooth[j] = currentTooth => c <= j}

\* checkPerToothTiming(crankAngle, currentTooth): the adjustCrankAngle calls
\* made.  fixedCrankingOverride is 0 outside fixed cranking timing.
checkPerToothTiming(angle, currentTooth) ==
    IF currentStatus.RPM > 0
    THEN [channels |-> PerToothChannels(currentTooth), crankAngle |-> angle]
    ELSE [channels |-> {}, crankAngle |-> angle]

\* angleToTimeMicroSecPerDegree(angle)
angleToTimeTruncated(angle) ==
    UShr(UMul(angle, microsPerDegree), microsPerDegree_Shift)

angleToTimeMicroSecPerDegree(angle) ==
    RSHIFT_ROUND(UMul(angle, microsPerDegree), microsPerDegree_Shift)

\* timeToAngleDegPerMicroSec(time)
timeToAngleTruncated(time) ==
    U16Of(UShr(UMul(time, degreesPerMicro), degreesPerMicro_Shift))

timeToAngleDegPerMicroSec(time) ==
    U16Of(RSHIFT_ROUND(UMul(time, degreesPerMicro), degreesPerMicro_Shift))

\* The (int) conversion: int is 16 bits on the ATmega2560
CInt(x) == I16Of(x)

\* clampToToothCount(toothNum, toothAdder)
clampToToothCount(toothNum, toothAdder) ==
    LET toothRange == I16Of(configPage4.triggerTeeth + toothAdder)
    IN  U16Of(nudge(1, toothRange, toothNum, toothRange))

\* ------------------------------------------------------------------------
\* Dual wheel decoder
\* ------------------------------------------------------------------------

\* initialiseTriggers(): the setup of the configured pattern is the one called
initialiseTriggers(pattern) == configPage4.TrigPattern = pattern

\* An edge arrives d microseconds after the event before
EdgeArrives(d) ==
    /\ ULe(USub(UAdd(now, d), bootTime), MaxTime)
    /\ d = NoiseGap => noiseTicks < MaxNoise
    /\ noiseTicks' = IF d = NoiseGap THEN noiseTicks + 1 ELSE noiseTicks

\* The tooth count DualWell::triggerSetup() leaves
ToothCountDefault == 255

DualWheelToothAtSetupTeeth == configPage4.triggerTeeth

DualWheelToothAtSetup == ToothCountDefault

\* The body of DualWell::triggerSetup()
DualWell_triggerSetup_body ==
    /\ initialiseTriggers("DECODER_DUAL_WHEEL")
    /\ decoder' = "DualWheel"
    /\ triggerToothAngle_' = IF configPage4.TrigSpeed = kCamSpeed
                             THEN 720 \div configPage4.triggerTeeth
                             ELSE 360 \div configPage4.triggerTeeth
    /\ toothCurrentCount' = DualWheelToothAtSetup
    /\ triggerFilterTime' = MICROS_PER_SEC \div ((MAX_RPM \div 60) * configPage4.triggerTeeth)
    /\ triggerSecFilterTime' = (MICROS_PER_SEC \div ((MAX_RPM \div 60) * 2)) \div 2
    /\ decoderState' = (decoderState \ {BIT_DECODER_2ND_DERIV})
                          \cup {BIT_DECODER_IS_SEQUENTIAL, BIT_DECODER_TOOTH_ANG_CORRECT, BIT_DECODER_HAS_SECONDARY}
    /\ MAX_STALL_TIME' = UMul(MICROS_PER_DEG_1_RPM \div 50, triggerToothAngle)
    /\ UNCHANGED <<configVars, thirdVars, mainLoopVars, currentStatus, now, noiseTicks, curTime, curGap, toothLastToothTime, toothLastMinusOneToothTime, toothOneTime, toothOneMinusOneTime>>
    /\ UNCHANGED <<curTime2, curGap2, targetGap2, toothLastSecToothTime, toothLastMinusOneSecToothTime>>
    /\ UNCHANGED <<triggerActualTeeth, triggerToothAngle, checkSyncToothCount, thirdToothCount, secondaryToothCount, revolutionOne, revVars, endToothVars, angleVars, timingAdjust>>

\* DualWell::triggerSetup(), called once when the pattern is selected
DualWell_triggerSetup ==
    /\ decoder = "null"
    /\ DualWell_triggerSetup_body

\* The filter test of triggerPri_DualWheel
PriNoFilter(gap) == TRUE

PriPassesFilter(gap) == UGe(gap, triggerFilterTime)

\* The tooth count at which triggerPri_DualWheel starts a new revolution
PriWrapsLate(count) == count = 1 \/ count > configPage4.triggerTeeth + 1

PriWraps(count) == count = 1 \/ count > configPage4.triggerTeeth

\* startRevolutions after a wrap of the tooth count: one more, and one more
\* again when the wheel turns at cam speed
PriStartRevolutionsOnce(revs) == revs + 1

PriStartRevolutions(revs) == revs + (IF configPage4.TrigSpeed = CAM_SPEED THEN 2 ELSE 1)

\* triggerPri_DualWheel(), micros() read at time t
triggerPri_DualWheel_at(t) ==
    /\ curTime' = t
    /\ curGap' = USub(t, toothLastToothTime)
    /\ IF PriPassesFilter(curGap')
       THEN LET count  == (toothCurrentCount + 1) % Two16
                synced == currentStatus.hasSync
                wraps  == synced /\ PriWraps(count)
                tooth  == IF wraps THEN 1 ELSE count
                revOne == IF wraps THEN ~revolutionOne ELSE revolutionOne
                angle  == I16Of((tooth - 1) * triggerToothAngle + configPage4.triggerAngle)
                seqTwo == configPage4.sparkMode = "IGN_MODE_SEQUENTIAL" /\ revOne /\ configPage4.TrigSpeed = CRANK_SPEED
            IN  /\ toothCurrentCount' = tooth
                /\ decoderState' = decoderState \cup {BIT_DECODER_VALID_TRIGGER}
                /\ toothLastMinusOneToothTime' = toothLastToothTime
                /\ toothLastToothTime' = t
                /\ revolutionOne' = revOne
                /\ toothOneMinusOneTime' = IF wraps THEN toothOneTime ELSE toothOneMinusOneTime
                /\ toothOneTime' = IF wraps THEN t ELSE toothOneTime
                /\ currentStatus' = IF wraps
                                    THEN [currentStatus EXCEPT !.startRevolutions = PriStartRevolutions(@)]
                                    ELSE currentStatus
                /\ triggerFilterTime' = IF synced THEN setFilter(curGap') ELSE triggerFilterTime
                /\ timingAdjust' =
                      IF configPage2.perToothIgn /\ ~currentStatus.engineCrank
                      THEN IF seqTwo
                           THEN checkPerToothTiming(I16Of(angle + 360), configPage4.triggerTeeth + tooth)
                           ELSE checkPerToothTiming(angle, tooth)
                      ELSE [channels |-> {}, crankAngle |-> 0]
       ELSE UNCHANGED <<toothCurrentCount, decoderState, toothLastMinusOneToothTime, toothLastToothTime, revolutionOne, toothOneMinusOneTime, toothOneTime, currentStatus, triggerFilterTime, timingAdjust>>
    /\ now' = t
    /\ UNCHANGED <<configVars, thirdVars, mainLoopVars, secVars, setupVars, revVars, endToothVars, angleVars>>

\* A primary edge while the dual wheel decoder is attached
triggerPri_DualWheel ==
    /\ decoder = "DualWheel"
    /\ \E d \in Gaps : EdgeArrives(d) /\ triggerPri_DualWheel_at(UAdd(now, d))

\* The filter test of triggerSec_DualWheel
SecPassesFilter(gap) == UGe(gap, triggerSecFilterTime)

\* Whether triggerSec_DualWheel (re)establishes sync on an accepted edge
SecSyncsUnsyncedOnly == currentStatus.hasSync = FALSE

SecSyncs == currentStatus.hasSync = FALSE \/ currentStatus.startRevolutions <= configPage4.StgCycles

\* The tooth count triggerSec_DualWheel forces when it establishes sync
SecForcedToothBelow == configPage4.triggerTeeth - 1

SecForcedTooth == configPage4.triggerTeeth

\* The secondary filter triggerSec_DualWheel leaves after a rejected edge
SecFilterAfterRejectKept == triggerSecFilterTime

SecFilterAfterRejectFull == revolutionTime

SecFilterAfterReject == UShr(revolutionTime, 1)

\* The sync flag triggerSec_DualWheel leaves when it counts a sync loss:
\* the one it found
SyncAfterSyncLossDropped == FALSE

SyncAfterSyncLoss == currentStatus.hasSync

\* The test before syncLossCounter++ in triggerSec_DualWheel
SecCountsSyncLossAnyRevolution ==
    toothCurrentCount /= configPage4.triggerTeeth

SecCountsSyncLoss ==
    toothCurrentCount /= configPage4.triggerTeeth /\ currentStatus.startRevolutions > 2

\* The primary filter triggerSec_DualWheel leaves when it establishes sync:
\* off
PriFilterAtSyncKept == triggerFilterTime

PriFilterAtSync == 0

\* triggerSec_DualWheel(), micros() read first at time t and then twice more
triggerSec_DualWheel_at(t) ==
    /\ curTime2' = t
    /\ curGap2' = USub(t, toothLastSecToothTime)
    /\ IF SecPassesFilter(curGap2')
       THEN /\ toothLastSecToothTime' = t
            /\ triggerSecFilterTime' = UShr(curGap2', 2)
            /\ revolutionOne' = TRUE
            /\ IF SecSyncs
               THEN \E d1 \in MicrosSteps, d2 \in MicrosSteps :
                      /\ toothLastToothTime' = UAdd(t, d1)
                      /\ now' = UAdd(UAdd(t, d1), d2)
                      /\ toothLastMinusOneToothTime' = USub(now', (MICROS_PER_MIN \div 10) \div configPage4.triggerTeeth)
                      /\ toothCurrentCount' = SecForcedTooth
                      /\ triggerFilterTime' = PriFilterAtSync
                      /\ currentStatus' = [currentStatus EXCEPT !.hasSync = TRUE]
               ELSE /\ currentStatus' =
                         IF SecCountsSyncLoss
                         THEN [currentStatus EXCEPT !.syncLossCounter = (@ + 1) % 256, !.hasSync = SyncAfterSyncLoss]
                         ELSE currentStatus
                    /\ toothCurrentCount' = IF configPage4.useResync = 1 THEN configPage4.triggerTeeth ELSE toothCurrentCount
                    /\ now' = t
                    /\ UNCHANGED <<toothLastToothTime, toothLastMinusOneToothTime, triggerFilterTime>>
       ELSE /\ triggerSecFilterTime' = SecFilterAfterReject
            /\ now' = t
            /\ UNCHANGED <<toothLastSecToothTime, revolutionOne, toothLastToothTime, toothLastMinusOneToothTime, toothCurrentCount, triggerFilterTime, currentStatus>>
    /\ UNCHANGED <<configVars, thirdVars, mainLoopVars, curTime, curGap, targetGap2, toothLastMinusOneSecToothTime, secondaryToothCount, toothOneTime, toothOneMinusOneTime>>
    /\ UNCHANGED <<setupVars, decoderState, revVars, endToothVars, angleVars, timingAdjust>>

\* A secondary edge while the dual wheel decoder is attached
triggerSec_DualWheel ==
    /\ decoder = "DualWheel"
    /\ \E d \in Gaps : EdgeArrives(d) /\ triggerSec_DualWheel_at(UAdd(now, d))

\* getRPM_DualWheel()
getRPM_DualWheel(z) ==
    IF currentStatus.hasSync = TRUE
    THEN IF currentStatus.RPM < currentStatus.crankRPM
         THEN crankingGetRPM(configPage4.triggerTeeth, configPage4.TrigSpeed = CAM_SPEED, z)
         ELSE stdGetRPM(configPage4.TrigSpeed = CAM_SPEED, z)
    ELSE [ret |-> 0, rev |-> Rev]

\* The single wrap of getCrankAngle: subtract 720 once, add CRANK_ANGLE_MAX once
WrapCrankAngle(angle) ==
    LET a == IF angle >= 720 THEN CInt(angle - 720) ELSE angle
    IN  IF a < 0 THEN CInt(a + CRANK_ANGLE_MAX) ELSE a

\* getCrankAngle_DualWheel() after its critical section: the angle from the
\* locals tempToothCurrentCount, tempToothLastToothTime, tempRevolutionOne
\* and lastCrankAngleCalc = t
CrankAngleOf_DualWheel(tempCount, tempLastTime, tempRevOne, t) ==
    LET count   == IF tempCount = 0 THEN configPage4.triggerTeeth ELSE CInt(tempCount)
        base    == CInt((count - 1) * triggerToothAngle + configPage4.triggerAngle)
        elapsed == USub(t, tempLastTime)
        a1      == CInt(base + timeToAngleDegPerMicroSec(elapsed))
        a2      == IF tempRevOne = TRUE /\ configPage4.TrigSpeed = CRANK_SPEED THEN CInt(a1 + 360) ELSE a1
    IN  [ret |-> WrapCrankAngle(a2), elapsedTime |-> elapsed, lastCrankAngleCalc |-> t, unwrapped |-> a2]

\* getCrankAngle_DualWheel(), micros() read at time t
getCrankAngle_DualWheel(t) ==
    CrankAngleOf_DualWheel(toothCurrentCount, toothLastToothTime, revolutionOne, t)

\* tempEndTooth of calcEndTeeth_DualWheel before it is clamped; z is what a
\* division by zero yields
tempEndTooth_DualWheel(ignitionAngle, z) ==
    IF triggerToothAngle = 0 THEN I16Of(z)
    ELSE I16Of(CDiv(ignitionAngle - configPage4.triggerAngle, I16Of(triggerToothAngle)))

\* calcEndTeeth_DualWheel(ignitionAngle, toothAdder); z is what a division
\* by zero yields
calcEndTeeth_DualWheel(ignitionAngle, toothAdder, z) ==
    clampToToothCount(tempEndTooth_DualWheel(ignitionAngle, z), toothAdder)

\* The toothAdder of triggerSetEndTeeth_DualWheel
toothAdder_DualWheel ==
    IF configPage4.sparkMode = "IGN_MODE_SEQUENTIAL" /\ configPage4.TrigSpeed = CRANK_SPEED
    THEN configPage4.triggerTeeth % 256
    ELSE 0

\* ------------------------------------------------------------------------
\* Missing tooth decoder
\* ------------------------------------------------------------------------

\* The body of triggerSetup_missingTooth()
triggerSetup_missingTooth_body ==
    /\ initialiseTriggers("DECODER_MISSING_TOOTH")
    /\ decoder' = "missingTooth"
    /\ triggerToothAngle' = IF configPage4.TrigSpeed = CAM_SPEED
                            THEN 720 \div configPage4.triggerTeeth
                            ELSE 360 \div configPage4.triggerTeeth
    /\ triggerActualTeeth' = U16Of(configPage4.triggerTeeth - configPage4.triggerMissingTeeth)
    /\ triggerFilterTime' = MICROS_PER_SEC \div ((MAX_RPM \div 60) * configPage4.triggerTeeth)
    /\ triggerSecFilterTime' = IF configPage4.trigPatternSec = "SEC_TRIGGER_4_1"
                               THEN ((MICROS_PER_MIN \div MAX_RPM) \div 4) \div 2
                               ELSE MICROS_PER_SEC \div (MAX_RPM \div 60)
    /\ decoderState' =
          LET sequential == IF configPage4.TrigSpeed = CAM_SPEED
                            THEN decoderState \cup {BIT_DECODER_IS_SEQUENTIAL}
                            ELSE decoderState \ {BIT_DECODER_IS_SEQUENTIAL}
              secondary  == /\ configPage4.TrigSpeed = CRANK_SPEED
                            /\ \/ configPage4.sparkMode = "IGN_MODE_SEQUENTIAL"
                               \/ configPage2.injLayoutSequential
                               \/ configPage6.vvtEnabled > 0
          IN  IF secondary
              THEN (sequential \ {BIT_DECODER_2ND_DERIV}) \cup {BIT_DECODER_HAS_SECONDARY}
              ELSE sequential \ {BIT_DECODER_2ND_DERIV, BIT_DECODER_HAS_SECONDARY}
    /\ checkSyncToothCount' = configPage4.triggerTeeth \div 2
    /\ toothLastMinusOneToothTime' = 0
    /\ toothCurrentCount' = 0
    /\ secondaryToothCount' = 0
    /\ thirdToothCount' = 0
    /\ toothOneTime' = 0
    /\ toothOneMinusOneTime' = 0
    /\ MAX_STALL_TIME' = UMul(UMul(MICROS_PER_DEG_1_RPM \div 50, triggerToothAngle'), configPage4.triggerMissingTeeth + 1)
    /\ UNCHANGED <<configVars, thirdVars, mainLoopVars, currentStatus, now, noiseTicks, curTime, curGap, toothLastToothTime>>
    /\ UNCHANGED <<curTime2, curGap2, targetGap2, toothLastSecToothTime, toothLastMinusOneSecToothTime>>
    /\ UNCHANGED <<triggerToothAngle_, revolutionOne, revVars, endToothVars, angleVars, timingAdjust>>

\* triggerSetup_missingTooth(), called once when the pattern is selected
triggerSetup_missingTooth ==
    /\ decoder = "null"
    /\ triggerSetup_missingTooth_body

\* getCrankAngle_missingTooth() after its critical section: the angle from
\* the locals, micros() read at time t
CrankAngleOf_missingTooth(tempCount, tempLastTime, tempRevOne, t) ==
    LET count   == CInt(tempCount)
        base    == CInt((count - 1) * triggerToothAngle + configPage4.triggerAngle)
        a1      == IF tempRevOne = TRUE /\ configPage4.TrigSpeed = CRANK_SPEED THEN CInt(base + 360) ELSE base
        elapsed == USub(t, tempLastTime)
        a2      == CInt(a1 + timeToAngleDegPerMicroSec(elapsed))
    IN  [ret |-> WrapCrankAngle(a2), elapsedTime |-> elapsed, lastCrankAngleCalc |-> t, unwrapped |-> a2]

\* getCrankAngle_missingTooth(), revolutionOne read as revOne, micros() read at time t
getCrankAngle_missingTooth(revOne, t) ==
    CrankAngleOf_missingTooth(toothCurrentCount, toothLastToothTime, revOne, t)

\* The (int8_t) conversion of an integer
I8Of(x) == LET m == x % 256 IN IF m >= 128 THEN m - 256 ELSE m

\* ANGLE_FILTER(input, alpha, prior), in long arithmetic with an arithmetic shift
ANGLE_FILTER(input, alpha, prior) == (input * (256 - alpha) + prior * alpha) \div 256

\* The while loop of triggerRecordVVT1Angle: 360 is taken off while the angle is above 360
RECURSIVE VvtWrap(_)
VvtWrap(a) == IF a > 360 THEN VvtWrap(a - 360) ELSE a

\* curAngle of triggerRecordVVT1Angle and triggerThird_missingTooth before
\* the filter: what getCrankAngle() returned, brought to 360 or below, less
\* the trigger angle and, in closed loop mode, the closed loop offset
VvtCurAngle(angle, closedLoopOffset) ==
    LET atTdc == I16Of(VvtWrap(I16Of(angle)) - configPage4.triggerAngle)
    IN  IF configPage6.vvtClosedLoop THEN I16Of(atTdc - closedLoopOffset) ELSE atTdc

\* The input handed to ANGLE_FILTER: curAngle << 1
VvtFilterInputUndoubled(curAngle) == curAngle

VvtFilterInput(curAngle) == I16Of(curAngle * 2)

\* triggerRecordVVT1Angle() with revolutionOne read as revOne and micros()
\* read at time t: the status and the angle globals afterwards
triggerRecordVVT1Angle(revOne, t) ==
    IF configPage6.vvtEnabled > 0 /\ revOne = TRUE
    THEN LET r        == getCrankAngle_missingTooth(revOne, t)
             curAngle == VvtCurAngle(r.ret, configPage10.vvtCL0DutyAng)
         IN  [vvt1Angle |-> I8Of(ANGLE_FILTER(VvtFilterInput(curAngle), configPage4.ANGLEFILTER_VVT, currentStatus.vvt1Angle)),
              crankAngle |-> r.ret, elapsedTime |-> r.elapsedTime, lastCrankAngleCalc |-> r.lastCrankAngleCalc]
    ELSE [vvt1Angle |-> currentStatus.vvt1Angle,
          crankAngle |-> crankAngle, elapsedTime |-> elapsedTime, lastCrankAngleCalc |-> lastCrankAngleCalc]

\* The filter test of triggerSec_missingTooth
SecMissingToothFirstEdgePasses(gap) == toothLastSecToothTime = 0 \/ UGe(gap, triggerSecFilterTime)

SecMissingToothPassesFilter(gap) == UGe(gap, triggerSecFilterTime)

\* The safety check for initial startup of triggerSec_missingTooth: the
\* time of the last secondary tooth it leaves
SecFirstEdgeLastTime(t) == IF toothLastSecToothTime = 0 THEN t ELSE toothLastSecToothTime

\* SEC_TRIGGER_4_1: whether an accepted edge is taken as the first tooth
\* after the gap
SecGapToothByGapOnly(gap, target) == UGe(gap, target)

SecGapTooth(gap, target) == UGe(gap, target) \/ secondaryToothCount > 3

\* triggerSec_missingTooth(), micros() read at time t (and once more for the
\* VVT angle)
triggerSec_missingTooth_at(t) ==
    LET gap     == IF toothLastSecToothTime = 0 THEN 0 ELSE USub(t, toothLastSecToothTime)
        lastSec == SecFirstEdgeLastTime(t)
        pattern == configPage4.trigPatternSec
        target  == UShr(UMul(USub(lastSec, toothLastMinusOneSecToothTime), 3), 1)
        gapTooth == pattern = "SEC_TRIGGER_4_1" /\ SecGapTooth(gap, target)
        count   == IF pattern = "SEC_TRIGGER_POLL" THEN secondaryToothCount
                   ELSE IF gapTooth THEN 1
                   ELSE (secondaryToothCount + 1) % Two16
        revOne  == IF \/ pattern = "SEC_TRIGGER_SINGLE"
                      \/ gapTooth
                      \/ (pattern = "SEC_TRIGGER_TOYOTA_3" /\ count = 2)
                   THEN TRUE ELSE revolutionOne
        records == \/ pattern \in {"SEC_TRIGGER_SINGLE", "SEC_TRIGGER_POLL"}
                   \/ gapTooth
                   \/ (pattern = "SEC_TRIGGER_TOYOTA_3" /\ count = 2)
    IN  /\ curTime2' = t
        /\ curGap2' = gap
        /\ IF SecMissingToothPassesFilter(gap)
           THEN /\ targetGap2' = IF pattern = "SEC_TRIGGER_4_1" THEN target ELSE targetGap2
                /\ toothLastMinusOneSecToothTime' = IF pattern = "SEC_TRIGGER_4_1" THEN lastSec ELSE toothLastMinusOneSecToothTime
                /\ secondaryToothCount' = count
                /\ revolutionOne' = revOne
                /\ triggerSecFilterTime' =
                      IF pattern = "SEC_TRIGGER_4_1" THEN (IF gapTooth THEN 0 ELSE UShr(gap, 2))
                      ELSE IF pattern = "SEC_TRIGGER_TOYOTA_3" THEN UShr(gap, 2)
                      ELSE UShr(gap, 1)
                /\ toothLastSecToothTime' = t
                /\ \E d \in MicrosSteps :
                      LET v == IF records THEN triggerRecordVVT1Angle(revOne, UAdd(t, d))
                               ELSE triggerRecordVVT1Angle(FALSE, t)
                      IN  /\ currentStatus' = [currentStatus EXCEPT !.vvt1Angle = v.vvt1Angle]
                          /\ crankAngle' = crankAngle
                          /\ elapsedTime' = v.elapsedTime
                          /\ lastCrankAngleCalc' = v.lastCrankAngleCalc
                          /\ now' = IF records /\ configPage6.vvtEnabled > 0 /\ revOne = TRUE THEN UAdd(t, d) ELSE t
           ELSE /\ toothLastSecToothTime' = lastSec
                /\ now' = t
                /\ UNCHANGED <<targetGap2, toothLastMinusOneSecToothTime, secondaryToothCount, revolutionOne, triggerSecFilterTime, currentStatus, angleVars>>
        /\ UNCHANGED <<configVars, thirdVars, mainLoopVars, priVars, setupVars, decoderState, revVars, endToothVars, timingAdjust>>

\* A secondary edge while the missing tooth decoder is attached
triggerSec_missingTooth ==
    /\ decoder = "missingTooth"
    /\ \E d \in Gaps : EdgeArrives(d) /\ triggerSec_missingTooth_at(UAdd(now, d))

\* The same on a cam wheel with a gap: teeth one or two tooth gaps apart,
\* over several cam revolutions
CamMaxTime == 90000

CamGaps == {ToothGap, 2 * ToothGap}

triggerSec_missingTooth_cam ==
    /\ decoder = "missingTooth"
    /\ \E d \in CamGaps :
          /\ ULe(USub(UAdd(now, d), bootTime), CamMaxTime)
          /\ noiseTicks' = noiseTicks
          /\ triggerSec_missingTooth_at(UAdd(now, d))

\* The filter test of triggerThird_missingTooth
ThirdPassesFilter(gap) == UGe(gap, triggerThirdFilterTime)

\* triggerThird_missingTooth(), micros() read at time t (and once more by
\* getCrankAngle())
triggerThird_missingTooth_at(t) ==
    LET gap       == IF toothLastThirdToothTime = 0 THEN 0 ELSE USub(t, toothLastThirdToothTime)
        lastThird == IF toothLastThirdToothTime = 0 THEN t ELSE toothLastThirdToothTime
    IN  /\ curTime3' = t
        /\ curGap3' = gap
        /\ IF ThirdPassesFilter(gap)
           THEN /\ thirdToothCount' = (thirdToothCount + 1) % Two16
                /\ triggerThirdFilterTime' = UShr(gap, 2)
                /\ \E d \in MicrosSteps :
                      LET r        == getCrankAngle_missingTooth(revolutionOne, UAdd(t, d))
                          curAngle == VvtCurAngle(r.ret, configPage4.vvt2CL0DutyAng)
                      IN  /\ currentStatus' = [currentStatus EXCEPT !.vvt2Angle =
                                                  I8Of(ANGLE_FILTER(VvtFilterInput(curAngle), configPage4.ANGLEFILTER_VVT, currentStatus.vvt2Angle))]
                          /\ elapsedTime' = r.elapsedTime
                          /\ lastCrankAngleCalc' = r.lastCrankAngleCalc
                          /\ now' = UAdd(t, d)
                /\ toothLastThirdToothTime' = t
           ELSE /\ toothLastThirdToothTime' = lastThird
                /\ now' = t
                /\ UNCHANGED <<thirdToothCount, triggerThirdFilterTime, currentStatus, elapsedTime, lastCrankAngleCalc>>
        /\ UNCHANGED <<configVars, mainLoopVars, priVars, secVars, revolutionOne, decoderState, revVars, endToothVars, crankAngle, timingAdjust>>
        /\ UNCHANGED <<decoder, triggerActualTeeth, triggerToothAngle, triggerToothAngle_, MAX_STALL_TIME, checkSyncToothCount>>

\* An edge on the third input while the missing tooth decoder is attached
triggerThird_missingTooth ==
    /\ decoder = "missingTooth"
    /\ \E d \in Gaps : EdgeArrives(d) /\ triggerThird_missingTooth_at(UAdd(now, d))

\* The filter test of the primary handler of the missing tooth pattern: the
\* first edge ever is accepted, later ones when the gap reaches the filter
PriMissingToothPassesFilter(gap) == toothLastToothTime = 0 \/ UGe(gap, triggerFilterTime)

\* The tooth index at which the primary handler of the missing tooth
\* pattern starts a new revolution: the configured total
PriMissingToothWrapsLate(count) == count > configPage4.triggerTeeth

PriMissingToothWraps(count) == count >= configPage4.triggerTeeth

\* The primary handler of the missing tooth pattern, micros() read at time
\* t: an accepted edge advances the tooth index, which goes back to 1 at
\* the configured total with no look at the gap; that starts a revolution
\* (parity flipped, tooth one times shifted) and declares sync.  The filter
\* is recomputed from the accepted gap.
triggerPri_missingTooth_at(t) ==
    /\ curTime' = t
    /\ curGap' = USub(t, toothLastToothTime)
    /\ now' = t
    /\ IF PriMissingToothPassesFilter(curGap')
       THEN /\ IF PriMissingToothWraps(toothCurrentCount + 1)
               THEN /\ toothCurrentCount' = 1
                    /\ revolutionOne' = ~revolutionOne
                    /\ toothOneMinusOneTime' = toothOneTime
                    /\ toothOneTime' = t
                    /\ currentStatus' = [currentStatus EXCEPT !.hasSync = TRUE]
               ELSE /\ toothCurrentCount' = toothCurrentCount + 1
                    /\ UNCHANGED <<revolutionOne, toothOneMinusOneTime, toothOneTime, currentStatus>>
            /\ toothLastMinusOneToothTime' = toothLastToothTime
            /\ toothLastToothTime' = t
            /\ triggerFilterTime' = setFilter(curGap')
       ELSE UNCHANGED <<toothCurrentCount, revolutionOne, toothOneMinusOneTime, toothOneTime, currentStatus,
                        toothLastMinusOneToothTime, toothLastToothTime, triggerFilterTime>>
    /\ UNCHANGED <<configVars, thirdVars, mainLoopVars, secVars, setupVars, decoderState, revVars, endToothVars, angleVars, timingAdjust>>

\* A primary edge while the missing tooth decoder is attached
triggerPri_missingTooth ==
    /\ decoder = "missingTooth"
    /\ \E d \in Gaps : EdgeArrives(d) /\ triggerPri_missingTooth_at(UAdd(now, d))

\* getRPM_missingTooth()
getRPM_missingTooth(z) ==
    IF currentStatus.RPM < currentStatus.crankRPM
    THEN IF toothCurrentCount /= 1
         THEN crankingGetRPM(configPage4.triggerTeeth, configPage4.TrigSpeed = CAM_SPEED, z)
         ELSE [ret |-> currentStatus.RPM, rev |-> Rev]
    ELSE stdGetRPM(configPage4.TrigSpeed = CAM_SPEED, z)

\* clampToActualTeeth(toothNum, toothAdder)
clampToActualTeethNoMin(toothNum, toothAdder) ==
    IF toothNum > triggerActualTeeth /\ toothNum <= configPage4.triggerTeeth THEN triggerActualTeeth ELSE toothNum

clampToActualTeethMinOnly(toothNum, toothAdder) ==
    Min(toothNum, U16Of(triggerActualTeeth + toothAdder))

clampToActualTeeth(toothNum, toothAdder) ==
    LET n == IF toothNum > triggerActualTeeth /\ toothNum <= configPage4.triggerTeeth THEN triggerActualTeeth ELSE toothNum
    IN  Min(n, U16Of(triggerActualTeeth + toothAdder))

\* tempEndTooth of calcEndTeeth_missingTooth before it is clamped; z is what
\* a division by zero yields
tempEndTooth_missingTooth(endAngle, z) ==
    LET quotient == IF triggerToothAngle = 0 THEN I16Of(z)
                    ELSE I16Of(CDiv(endAngle - configPage4.triggerAngle, I16Of(triggerToothAngle)))
    IN  IF configPage4.triggerTeeth > 12 THEN I16Of(quotient - 1) ELSE quotient

\* calcEndTeeth_missingTooth(endAngle, toothAdder); z is what a division by
\* zero yields
calcEndTeeth_missingTooth(endAngle, toothAdder, z) ==
    clampToActualTeeth(clampToToothCount(tempEndTooth_missingTooth(endAngle, z), toothAdder), toothAdder)

\* The toothAdder of triggerSetEndTeeth_missingTooth
toothAdder_missingTooth ==
    IF /\ configPage4.sparkMode \in {"IGN_MODE_SEQUENTIAL", "IGN_MODE_SINGLE"}
       /\ configPage4.TrigSpeed = CRANK_SPEED
       /\ configPage2.strokes = "FOUR_STROKE"
    THEN configPage4.triggerTeeth % 256
    ELSE 0

\* ------------------------------------------------------------------------
\* The foreground loop
\* ------------------------------------------------------------------------

\* getRPM() through the function pointer
getRPM(z) ==
    IF decoder = "DualWheel" THEN getRPM_DualWheel(z)
    ELSE IF decoder = "missingTooth" THEN getRPM_missingTooth(z)
    ELSE [ret |-> 0, rev |-> Rev]

\* The main loop: currentStatus.RPM = getRPM()
MainLoopGetRPM ==
    /\ decoder /= "null"
    /\ \E z \in DivZeroOutcomes :
         LET r == getRPM(z)
         IN  /\ currentStatus' = [currentStatus EXCEPT !.RPM = r.ret]
             /\ revolutionTime' = r.rev.revolutionTime
             /\ microsPerDegree' = r.rev.microsPerDegree
             /\ degreesPerMicro' = r.rev.degreesPerMicro
    /\ UNCHANGED <<configVars, thirdVars, mainLoopVars, now, noiseTicks, priVars, secVars, setupVars, revolutionOne, decoderState, endToothVars, angleVars, timingAdjust>>

\* How long the engine may stand still between two polls of the main loop
StallWait == 800000

StallWaits == {0, StallWait}

\* The stall test of the main loop: the time since the last accepted tooth
\* exceeds the stall timeout of the pattern
EngineNeverStalled(t) == FALSE

EngineStalled(t) == UGt(USub(t, toothLastToothTime), MAX_STALL_TIME)

\* The main loop polling for a stall, right after the event before or
\* StallWait later: a stalled engine has RPM 0 and no sync, a turning one
\* gets currentStatus.RPM = getRPM()
MainLoopStallPollAt(t) ==
    /\ now' = t
    /\ IF EngineStalled(t)
       THEN /\ currentStatus' = [currentStatus EXCEPT !.RPM = 0, !.hasSync = FALSE, !.halfSync = FALSE]
            /\ UNCHANGED revVars
       ELSE \E z \in DivZeroOutcomes :
               LET r == getRPM(z)
               IN  /\ currentStatus' = [currentStatus EXCEPT !.RPM = r.ret]
                   /\ revolutionTime' = r.rev.revolutionTime
                   /\ microsPerDegree' = r.rev.microsPerDegree
                   /\ degreesPerMicro' = r.rev.degreesPerMicro
    /\ UNCHANGED <<configVars, thirdVars, mainLoopVars, noiseTicks, priVars, secVars, setupVars, revolutionOne, decoderState, endToothVars, angleVars, timingAdjust>>

MainLoopStallPoll ==
    /\ decoder /= "null"
    /\ \E d \in StallWaits :
         /\ d /= 0 => ULe(USub(now, bootTime), MaxTime)
         /\ MainLoopStallPollAt(UAdd(now, d))

\* getCrankAngle() through the function pointer
getCrankAngle(t) ==
    IF decoder = "DualWheel" THEN getCrankAngle_DualWheel(t)
    ELSE IF decoder = "missingTooth" THEN getCrankAngle_missingTooth(revolutionOne, t)
    ELSE [ret |-> 0, elapsedTime |-> elapsedTime, lastCrankAngleCalc |-> lastCrankAngleCalc, unwrapped |-> 0]

\* The main loop: crankAngle = getCrankAngle(), right after the event before
\* or a tooth gap later
MainLoopGetCrankAngle ==
    /\ decoder /= "null"
    /\ \E d \in {0, ToothGap} :
         /\ ULe(USub(UAdd(now, d), bootTime), MaxTime)
         /\ now' = UAdd(now, d)
         /\ LET r == getCrankAngle(now')
            IN  /\ crankAngle' = r.ret
                /\ elapsedTime' = r.elapsedTime
                /\ lastCrankAngleCalc' = r.lastCrankAngleCalc
    /\ UNCHANGED <<configVars, thirdVars, mainLoopVars, currentStatus, noiseTicks, priVars, secVars, setupVars, revolutionOne, decoderState, revVars, endToothVars, timingAdjust>>

\* The ignition end angles the main loop may hand over: that of channel 1,
\* the other channels 180 degrees apart
EndAngles == {0, 10, 355, 710}

EndAngleSets == {[c \in Channels |-> (a + 180 * (c - 1)) % 720] : a \in EndAngles}

\* triggerSetEndTeeth_DualWheel()
triggerSetEndTeeth_DualWheel(z) ==
    [c \in Channels |-> calcEndTeeth_DualWheel(ignitionEndAngle'[c], toothAdder_DualWheel, z)]

\* triggerSetEndTeeth_missingTooth()
triggerSetEndTeeth_missingTooth(z) ==
    [c \in Channels |-> calcEndTeeth_missingTooth(ignitionEndAngle'[c], toothAdder_missingTooth, z)]

\* triggerSetEndTeeth() through the function pointer
triggerSetEndTeeth(z) ==
    IF decoder = "DualWheel" THEN triggerSetEndTeeth_DualWheel(z)
    ELSE IF decoder = "missingTooth" THEN triggerSetEndTeeth_missingTooth(z)
    ELSE ignitionEndTooth

\* The main loop: new ignition end angles, then triggerSetEndTeeth()
MainLoopSetEndTeeth ==
    /\ decoder /= "null"
    /\ ignitionEndAngle' \in EndAngleSets
    /\ \E z \in DivZeroOutcomes : ignitionEndTooth' = triggerSetEndTeeth(z)
    /\ UNCHANGED <<configVars, thirdVars, mainLoopVars, currentStatus, now, noiseTicks, priVars, secVars, setupVars, revolutionOne, decoderState, revVars, angleVars, timingAdjust>>

\* ------------------------------------------------------------------------
\* Configurations and the state after boot
\* ------------------------------------------------------------------------

\* A configPage4
Config(pattern, teeth, missing, speed, filter, cycles, spark, angle, secPattern) ==
    [TrigPattern |-> pattern, triggerTeeth |-> teeth, triggerMissingTeeth |-> missing,
     TrigSpeed |-> speed, triggerFilter |-> filter, StgCycles |-> cycles,
     useResync |-> IF speed = CRANK_SPEED THEN 1 ELSE 0,
     sparkMode |-> spark, triggerAngle |-> angle, trigPatternSec |-> secPattern,
     ANGLEFILTER_VVT |-> 0, vvt2CL0DutyAng |-> 0]

\* Dual wheel configurations: a two-tooth primary wheel
DualWheelConfigs ==
    {Config("DECODER_DUAL_WHEEL", 2, 0, speed, filter, cycles, "IGN_MODE_SEQUENTIAL", 10, "SEC_TRIGGER_SINGLE") :
        speed \in {CRANK_SPEED, CAM_SPEED}, filter \in {0, 2}, cycles \in {0, 3}}

\* Missing tooth configurations: a 36-1 wheel with each shape of cam signal
MissingToothConfigs ==
    {Config("DECODER_MISSING_TOOTH", 36, 1, CRANK_SPEED, 2, 0, "IGN_MODE_SEQUENTIAL", 10, secPattern) :
        secPattern \in SecPatterns}

\* Configurations of the crank angle specification: both patterns, with
\* and without sequential operation
AngleConfigs ==
    {Config(pattern, IF pattern = "DECODER_DUAL_WHEEL" THEN 2 ELSE 36, IF pattern = "DECODER_DUAL_WHEEL" THEN 0 ELSE 1,
            CRANK_SPEED, 2, 0, spark, 10, "SEC_TRIGGER_SINGLE") :
        pattern \in {"DECODER_DUAL_WHEEL", "DECODER_MISSING_TOOTH"},
        spark \in {"IGN_MODE_WASTED", "IGN_MODE_SEQUENTIAL"}}

\* Configurations of the end teeth specification
EndTeethConfigs ==
    {Config(pattern, teeth, IF pattern = "DECODER_DUAL_WHEEL" THEN 0 ELSE 1, CRANK_SPEED, 2, 0, spark, angle, "SEC_TRIGGER_SINGLE") :
        pattern \in {"DECODER_DUAL_WHEEL", "DECODER_MISSING_TOOTH"},
        teeth \in {4, 36},
        spark \in {"IGN_MODE_WASTED", "IGN_MODE_SEQUENTIAL"},
        angle \in {-360, 10, 360}}

\* The globals of the third input after boot
\* ------------------------------------------------------------------------
\* The DataFilter class: a ring buffer of up to 16 readings
\* ------------------------------------------------------------------------

FREE == 0

FULL == 1

\* The length of data_
DataFilterCapacity == 16

\* What the elements of data_, which the constructor does not write, may hold
GarbageValues == {0, -1}

\* No DataFilter object constructed yet
NoDataFilter ==
    [size_ |-> 0, it_ini_ |-> 0, it_end_ |-> 0, q_status_ |-> FREE,
     data_ |-> [i \in 0 .. DataFilterCapacity - 1 |-> 0], inserts |-> 0]

\* DataFilter(size): the object after the constructor
DataFilter(size, garbage) ==
    [size_ |-> size, it_ini_ |-> 0, it_end_ |-> 0, q_status_ |-> FREE,
     data_ |-> [i \in 0 .. DataFilterCapacity - 1 |-> garbage], inserts |-> 0]

\* x++ on a uint8_t
U8Inc(x) == (x + 1) % 256

\* queue_insert_data(data) on the object f: the object afterwards
queue_insert_dataKeepStart(f, data) ==
    LET end1 == U8Inc(f.it_end_)
        end2 == IF end1 = f.size_ THEN 0 ELSE end1
    IN  [f EXCEPT !.data_ = [@ EXCEPT ![f.it_end_] = data],
                  !.it_end_ = end2,
                  !.q_status_ = IF end2 = f.it_ini_ THEN FULL ELSE @,
                  !.inserts = @ + 1]

queue_insert_data(f, data) ==
    LET ini1 == IF f.q_status_ = FULL THEN U8Inc(f.it_ini_) ELSE f.it_ini_
        ini2 == IF f.q_status_ = FULL /\ ini1 = f.size_ THEN 0 ELSE ini1
        end1 == U8Inc(f.it_end_)
        end2 == IF end1 = f.size_ THEN 0 ELSE end1
    IN  [f EXCEPT !.it_ini_ = ini2,
                  !.data_ = [@ EXCEPT ![f.it_end_] = data],
                  !.it_end_ = end2,
                  !.q_status_ = IF end2 = ini2 THEN FULL ELSE @,
                  !.inserts = @ + 1]

InitDataFilter == dataFilter = NoDataFilter

InitThird ==
    curTime3 = 0 /\ curGap3 = 0 /\ toothLastThirdToothTime = 0 /\ triggerThirdFilterTime = 0

\* The main loop is outside getRPM() and getCrankAngle(), interrupts are on
InitMainLoop ==
    /\ interruptsOff = FALSE
    /\ mainLoopPc = "loop"
    /\ tempToothCurrentCount = 0 /\ tempRevolutionOne = FALSE /\ tempToothLastToothTime = 0

\* The globals after boot: zero-initialised, handlers null
InitGlobals ==
    /\ now = bootTime
    /\ decoder = "null"
    /\ curTime = 0 /\ curGap = 0 /\ curTime2 = 0 /\ curGap2 = 0 /\ targetGap2 = 0
    /\ toothCurrentCount = 0
    /\ toothLastToothTime = 0 /\ toothLastMinusOneToothTime = 0
    /\ toothLastSecToothTime = 0 /\ toothLastMinusOneSecToothTime = 0
    /\ toothOneTime = 0 /\ toothOneMinusOneTime = 0
    /\ revolutionOne = FALSE
    /\ secondaryToothCount = 0 /\ thirdToothCount = 0
    /\ checkSyncToothCount = 0
    /\ triggerActualTeeth = 0
    /\ triggerFilterTime = 0 /\ triggerSecFilterTime = 0
    /\ triggerToothAngle = 0 /\ triggerToothAngle_ = 0
    /\ MAX_STALL_TIME = MICROS_PER_SEC \div 2
    /\ decoderState = {}
    /\ revolutionTime = 0 /\ microsPerDegree = 0 /\ degreesPerMicro = 0
    /\ ignitionEndAngle = [c \in Channels |-> 0]
    /\ ignitionEndTooth = [c \in Channels |-> 0]
    /\ crankAngle = 0 /\ elapsedTime = 0 /\ lastCrankAngleCalc = 0
    /\ timingAdjust = [channels |-> {}, crankAngle |-> 0]
    /\ InitThird
    /\ InitMainLoop
    /\ InitDataFilter

\* The status after boot
InitStatus ==
    currentStatus = [hasSync |-> FALSE, halfSync |-> FALSE, RPM |-> 0, crankRPM |-> 400,
                     startRevolutions |-> 0, syncLossCounter |-> 0, engineCrank |-> FALSE,
                     vvt1Angle |-> 0, vvt2Angle |-> 0]

\* The state after boot at one of the given times with one of the given
\* configurations, noise edges still to come
InitWith(boots, configs) ==
    /\ bootTime \in boots
    /\ noiseTicks = 0
    /\ InitGlobals
    /\ InitStatus
    /\ configPage4 \in configs
    /\ configPage2 = [perToothIgn |-> FALSE, strokes |-> "FOUR_STROKE", injLayoutSequential |-> FALSE]
    /\ configPage6 = [vvtEnabled |-> 0, vvtClosedLoop |-> FALSE]
    /\ configPage10 = [vvtCL0DutyAng |-> 0]
    /\ CRANK_ANGLE_MAX = IF configPage4.sparkMode = "IGN_MODE_SEQUENTIAL" THEN 720 ELSE 360

\* The same on a clean signal: no noise edges to come
InitQuiet(boots, configs) ==
    /\ bootTime \in boots
    /\ noiseTicks = MaxNoise
    /\ InitGlobals
    /\ InitStatus
    /\ configPage4 \in configs
    /\ configPage2 = [perToothIgn |-> FALSE, strokes |-> "FOUR_STROKE", injLayoutSequential |-> FALSE]
    /\ configPage6 = [vvtEnabled |-> 0, vvtClosedLoop |-> FALSE]
    /\ configPage10 = [vvtCL0DutyAng |-> 0]
    /\ CRANK_ANGLE_MAX = IF configPage4.sparkMode = "IGN_MODE_SEQUENTIAL" THEN 720 ELSE 360

\* ------------------------------------------------------------------------
\* The edge specification: one boot, one setup, then edges and getRPM() in
\* any order
\* ------------------------------------------------------------------------

Init == InitWith(BootTimes, DualWheelConfigs \cup MissingToothConfigs)

Next ==
    \/ DualWell_triggerSetup
    \/ triggerSetup_missingTooth
    \/ triggerPri_DualWheel
    \/ triggerSec_DualWheel
    \/ triggerSec_missingTooth
    \/ MainLoopGetRPM

Spec == Init /\ [][Next]_vars

\* ------------------------------------------------------------------------
\* The crank angle specification: as above with getCrankAngle() calls
\* ------------------------------------------------------------------------

InitAngle == InitWith({BootMicros}, AngleConfigs)

NextAngle ==
    \/ DualWell_triggerSetup
    \/ triggerSetup_missingTooth
    \/ triggerPri_DualWheel
    \/ triggerSec_DualWheel
    \/ triggerSec_missingTooth
    \/ MainLoopGetRPM
    \/ MainLoopGetCrankAngle

SpecAngle == InitAngle /\ [][NextAngle]_vars

\* ------------------------------------------------------------------------
\* The end teeth specification: one boot, one setup, then the main loop
\* hands over ignition end angles
\* ------------------------------------------------------------------------

InitEndTeeth == InitWith(BootTimes, EndTeethConfigs)

NextEndTeeth ==
    \/ DualWell_triggerSetup
    \/ triggerSetup_missingTooth
    \/ MainLoopSetEndTeeth

SpecEndTeeth == InitEndTeeth /\ [][NextEndTeeth]_vars

\* ------------------------------------------------------------------------
\* The RPM specification: getRPM() on the state the decoder is in after
\* tooth one has been seen, for both decoders
\* ------------------------------------------------------------------------

\* Configurations of the RPM specification: both patterns at crank and at
\* cam speed
RpmConfigs ==
    {Config(pattern, IF pattern = "DECODER_DUAL_WHEEL" THEN 2 ELSE 36, IF pattern = "DECODER_DUAL_WHEEL" THEN 0 ELSE 1,
            speed, 2, 0, "IGN_MODE_SEQUENTIAL", 10, "SEC_TRIGGER_SINGLE") :
        pattern \in {"DECODER_DUAL_WHEEL", "DECODER_MISSING_TOOTH"},
        speed \in {CRANK_SPEED, CAM_SPEED}}

\* The times between the last two sightings of tooth one
ToothOneDeltas == {3000, 10000, 20000}

\* When tooth one was seen the time before: never, 40 ms after the timer
\* started, or 5 ms before the timer wrapped
ToothOneBefore == {0, 40000, -5000}

\* The RPM stored by the main loop and the revolution time it came from,
\* none of them a revolution time the tooth one deltas give
StoredRpms ==
    {[RPM |-> 0, revolutionTime |-> 0], [RPM |-> 300, revolutionTime |-> 200000],
     [RPM |-> 2000, revolutionTime |-> 30000], [RPM |-> 4000, revolutionTime |-> 15000]}

InitRpm ==
    /\ bootTime = BootMicros
    /\ configPage4 \in RpmConfigs
    /\ configPage2 = [perToothIgn |-> FALSE, strokes |-> "FOUR_STROKE", injLayoutSequential |-> FALSE]
    /\ configPage6 = [vvtEnabled |-> 0, vvtClosedLoop |-> FALSE]
    /\ configPage10 = [vvtCL0DutyAng |-> 0]
    /\ CRANK_ANGLE_MAX = 720
    /\ decoder = IF configPage4.TrigPattern = "DECODER_DUAL_WHEEL" THEN "DualWheel" ELSE "missingTooth"
    /\ \E sync \in BOOLEAN, stored \in StoredRpms, revolutions \in {0, 5} :
          /\ currentStatus = [hasSync |-> sync, halfSync |-> FALSE, RPM |-> stored.RPM, crankRPM |-> 400,
                              startRevolutions |-> revolutions, syncLossCounter |-> 0,
                              engineCrank |-> FALSE, vvt1Angle |-> 0, vvt2Angle |-> 0]
          /\ revolutionTime = stored.revolutionTime
          /\ microsPerDegree = div360(UShl(stored.revolutionTime, microsPerDegree_Shift))
          /\ degreesPerMicro = IF stored.revolutionTime = 0 THEN 0
                               ELSE U16Of(UDIV_ROUND_CLOSEST(UShl(360, degreesPerMicro_Shift), stored.revolutionTime))
    /\ toothOneMinusOneTime \in ToothOneBefore
    /\ toothCurrentCount \in {1, 2}
    /\ \E delta \in ToothOneDeltas :
          LET gap == delta \div configPage4.triggerTeeth
          IN  /\ toothOneTime = UAdd(toothOneMinusOneTime, delta)
              /\ toothLastToothTime = UAdd(toothOneTime, (toothCurrentCount - 1) * gap)
              /\ toothLastMinusOneToothTime = USub(toothLastToothTime, gap)
              /\ curGap = gap
              /\ triggerFilterTime = setFilter(gap)
    /\ curTime = toothLastToothTime
    /\ now = toothLastToothTime
    /\ noiseTicks = 0
    /\ curTime2 = 0 /\ curGap2 = 0 /\ targetGap2 = 0
    /\ toothLastSecToothTime = 0 /\ toothLastMinusOneSecToothTime = 0
    /\ secondaryToothCount = 0 /\ thirdToothCount = 0
    /\ revolutionOne = FALSE
    /\ triggerToothAngle = IF decoder = "DualWheel" THEN 0
                           ELSE IF configPage4.TrigSpeed = CAM_SPEED THEN 720 \div configPage4.triggerTeeth
                           ELSE 360 \div configPage4.triggerTeeth
    /\ triggerToothAngle_ = IF decoder = "missingTooth" THEN 0
                            ELSE IF configPage4.TrigSpeed = kCamSpeed THEN 720 \div configPage4.triggerTeeth
                            ELSE 360 \div configPage4.triggerTeeth
    /\ triggerActualTeeth = IF decoder = "DualWheel" THEN 0
                            ELSE U16Of(configPage4.triggerTeeth - configPage4.triggerMissingTeeth)
    /\ checkSyncToothCount = IF decoder = "DualWheel" THEN 0 ELSE configPage4.triggerTeeth \div 2
    /\ triggerSecFilterTime = IF decoder = "DualWheel" THEN (MICROS_PER_SEC \div ((MAX_RPM \div 60) * 2)) \div 2
                              ELSE MICROS_PER_SEC \div (MAX_RPM \div 60)
    /\ MAX_STALL_TIME = UMul(UMul(MICROS_PER_DEG_1_RPM \div 50, triggerToothAngle), configPage4.triggerMissingTeeth + 1)
    /\ decoderState = IF decoder = "DualWheel"
                      THEN {BIT_DECODER_IS_SEQUENTIAL, BIT_DECODER_TOOTH_ANG_CORRECT, BIT_DECODER_HAS_SECONDARY, BIT_DECODER_VALID_TRIGGER}
                      ELSE IF configPage4.TrigSpeed = CAM_SPEED
                           THEN {BIT_DECODER_IS_SEQUENTIAL, BIT_DECODER_VALID_TRIGGER}
                           ELSE {BIT_DECODER_HAS_SECONDARY, BIT_DECODER_VALID_TRIGGER}
    /\ ignitionEndAngle = [c \in Channels |-> 0]
    /\ ignitionEndTooth = [c \in Channels |-> 0]
    /\ crankAngle = 0 /\ elapsedTime = 0 /\ lastCrankAngleCalc = 0
    /\ timingAdjust = [channels |-> {}, crankAngle |-> 0]
    /\ InitThird
    /\ InitMainLoop
    /\ InitDataFilter

NextRpm == MainLoopGetRPM

SpecRpm == InitRpm /\ [][NextRpm]_vars

\* ------------------------------------------------------------------------
\* The handler specification: one boot, one setup, then the edge handlers
\* of the three inputs and the main loop's calls in any order
\* ------------------------------------------------------------------------

\* A two-tooth dual wheel and a 4-1 missing tooth wheel, both at crank speed
HandlerConfigs ==
    {Config("DECODER_DUAL_WHEEL", 2, 0, CRANK_SPEED, 2, 0, "IGN_MODE_SEQUENTIAL", 10, "SEC_TRIGGER_SINGLE"),
     Config("DECODER_MISSING_TOOTH", 4, 1, CRANK_SPEED, 2, 0, "IGN_MODE_SEQUENTIAL", 10, "SEC_TRIGGER_SINGLE")}

InitHandlers == InitQuiet({BootMicros}, HandlerConfigs)

NextHandlers ==
    \/ DualWell_triggerSetup
    \/ triggerSetup_missingTooth
    \/ triggerPri_DualWheel
    \/ triggerSec_DualWheel
    \/ triggerPri_missingTooth
    \/ triggerSec_missingTooth
    \/ triggerThird_missingTooth
    \/ MainLoopGetRPM
    \/ MainLoopGetCrankAngle
    \/ MainLoopSetEndTeeth

SpecHandlers == InitHandlers /\ [][NextHandlers]_vars

\* ------------------------------------------------------------------------
\* The sync loss specification: a two-tooth dual wheel at cam speed on a
\* noisy signal, with the main loop's getRPM() and getCrankAngle() calls
\* ------------------------------------------------------------------------

SyncLossConfigs ==
    {Config("DECODER_DUAL_WHEEL", 2, 0, CAM_SPEED, 0, 0, "IGN_MODE_SEQUENTIAL", 10, "SEC_TRIGGER_SINGLE")}

InitSyncLoss == InitWith({BootMicros}, SyncLossConfigs)

NextSyncLoss ==
    \/ DualWell_triggerSetup
    \/ triggerPri_DualWheel
    \/ triggerSec_DualWheel
    \/ MainLoopGetRPM
    \/ MainLoopGetCrankAngle

SpecSyncLoss == InitSyncLoss /\ [][NextSyncLoss]_vars

\* ------------------------------------------------------------------------
\* The stall specification: one boot, one setup, then edges on a clean
\* signal and the main loop polling for a stall
\* ------------------------------------------------------------------------

\* A two-tooth dual wheel and a 3-1 missing tooth wheel, both at crank speed
StallConfigs ==
    {Config("DECODER_DUAL_WHEEL", 2, 0, CRANK_SPEED, 2, 0, "IGN_MODE_SEQUENTIAL", 10, "SEC_TRIGGER_SINGLE"),
     Config("DECODER_MISSING_TOOTH", 3, 1, CRANK_SPEED, 2, 0, "IGN_MODE_SEQUENTIAL", 10, "SEC_TRIGGER_SINGLE")}

InitStall == InitQuiet({BootMicros}, StallConfigs)

NextStall ==
    \/ DualWell_triggerSetup
    \/ triggerSetup_missingTooth
    \/ triggerPri_DualWheel
    \/ triggerSec_DualWheel
    \/ triggerPri_missingTooth
    \/ MainLoopStallPoll

SpecStall == InitStall /\ [][NextStall]_vars

\* ------------------------------------------------------------------------
\* The VVT specification: the missing tooth decoder with VVT enabled, open
\* and closed loop, with and without smoothing
\* ------------------------------------------------------------------------

\* The smoothing factors configPage4.ANGLEFILTER_VVT drawn from
VvtAlpha == 128

VvtAlphas == {0, VvtAlpha}

VvtConfigs ==
    {[Config("DECODER_MISSING_TOOTH", 4, 1, CRANK_SPEED, 2, 0, "IGN_MODE_SEQUENTIAL", 20, "SEC_TRIGGER_SINGLE")
         EXCEPT !.ANGLEFILTER_VVT = a, !.vvt2CL0DutyAng = 7] : a \in VvtAlphas}

InitVvt ==
    /\ bootTime = BootMicros
    /\ noiseTicks = MaxNoise
    /\ InitGlobals
    /\ InitStatus
    /\ configPage4 \in VvtConfigs
    /\ configPage2 = [perToothIgn |-> FALSE, strokes |-> "FOUR_STROKE", injLayoutSequential |-> FALSE]
    /\ configPage6 \in {[vvtEnabled |-> 1, vvtClosedLoop |-> cl] : cl \in BOOLEAN}
    /\ configPage10 = [vvtCL0DutyAng |-> 5]
    /\ CRANK_ANGLE_MAX = 720

NextVvt ==
    \/ triggerSetup_missingTooth
    \/ triggerPri_missingTooth
    \/ triggerSec_missingTooth
    \/ triggerThird_missingTooth

SpecVvt == InitVvt /\ [][NextVvt]_vars

\* ------------------------------------------------------------------------
\* The foreground calls statement by statement, edge interrupts in between
\* ------------------------------------------------------------------------

\* What the foreground steps leave alone
isrVars == <<configVars, now, noiseTicks, priVars, secVars, setupVars, revolutionOne, decoderState, endToothVars, timingAdjust, thirdVars>>

tempVars == <<tempToothCurrentCount, tempRevolutionOne, tempToothLastToothTime>>

\* The edge interrupts: they run while interrupts are enabled
Interrupt_triggerPri_DualWheel == ~interruptsOff /\ triggerPri_DualWheel

Interrupt_triggerSec_DualWheel == ~interruptsOff /\ triggerSec_DualWheel

Interrupt_triggerPri_missingTooth == ~interruptsOff /\ triggerPri_missingTooth

\* microsPerDegree as SetRevolutionTime derives it from the revolution time
MicrosPerDegreeOf(revTime) == div360(UShl(revTime, microsPerDegree_Shift))

\* degreesPerMicro as SetRevolutionTime derives it; z is what a division by
\* zero yields
DegreesPerMicroOf(revTime, z) ==
    IF revTime = 0 THEN U16Of(z)
    ELSE U16Of(UDIV_ROUND_CLOSEST(UShl(360, degreesPerMicro_Shift), revTime))

\* The function getRPM() ends up in, decided before interrupts are masked
GetRPMRoute ==
    IF decoder = "DualWheel"
    THEN IF currentStatus.hasSync = TRUE
         THEN IF currentStatus.RPM < currentStatus.crankRPM THEN "crankingGetRPM" ELSE "stdGetRPM"
         ELSE "return"
    ELSE IF decoder = "missingTooth"
    THEN IF currentStatus.RPM < currentStatus.crankRPM
         THEN IF toothCurrentCount /= 1 THEN "crankingGetRPM" ELSE "return"
         ELSE "stdGetRPM"
    ELSE "return"

\* getRPM() up to the noInterrupts() of crankingGetRPM or
\* UpdateRevolutionTimeFromTeeth, or all of it where neither is reached
GetRPMCall ==
    /\ decoder /= "null"
    /\ mainLoopPc = "loop"
    /\ IF GetRPMRoute = "crankingGetRPM" /\ CrankingGate
       THEN mainLoopPc' = "crankingGetRPM_379" /\ UNCHANGED currentStatus
       ELSE IF GetRPMRoute = "stdGetRPM"
       THEN mainLoopPc' = "UpdateRevolutionTimeFromTeeth_315" /\ UNCHANGED currentStatus
       ELSE /\ \E z \in DivZeroOutcomes : currentStatus' = [currentStatus EXCEPT !.RPM = getRPM(z).ret]
            /\ UNCHANGED mainLoopPc
    /\ UNCHANGED <<isrVars, revVars, angleVars, interruptsOff, tempVars>>

\* What noInterrupts() makes of the interrupt mask before SetRevolutionTime
RevTimeWriteUnmasked == FALSE

RevTimeWriteMasked == TRUE

\* noInterrupts() of crankingGetRPM and UpdateRevolutionTimeFromTeeth
RevTimeNoInterrupts ==
    /\ mainLoopPc \in {"crankingGetRPM_379", "UpdateRevolutionTimeFromTeeth_315"}
    /\ interruptsOff' = RevTimeWriteMasked
    /\ mainLoopPc' = IF mainLoopPc = "crankingGetRPM_379" THEN "crankingGetRPM_380"
                     ELSE "UpdateRevolutionTimeFromTeeth_316"
    /\ UNCHANGED <<isrVars, currentStatus, revVars, angleVars, tempVars>>

\* The call of SetRevolutionTime up to its first assignment; where the
\* revolution time does not change, interrupts() and the return of the
\* stored RPM
SetRevolutionTime_306 ==
    /\ mainLoopPc \in {"crankingGetRPM_380", "UpdateRevolutionTimeFromTeeth_316"}
    /\ LET isCam   == configPage4.TrigSpeed = CAM_SPEED
           revTime == IF mainLoopPc = "crankingGetRPM_380"
                      THEN CrankingRevTime(configPage4.triggerTeeth, isCam)
                      ELSE RevTimeFromTeeth(isCam)
           updated == IF mainLoopPc = "crankingGetRPM_380"
                      THEN SetRevolutionTimeChanged(revTime)
                      ELSE UpdateRevolutionTimeFromTeeth(isCam)
       IN  IF updated
           THEN /\ revolutionTime' = revTime
                /\ mainLoopPc' = "SetRevolutionTime_307"
                /\ UNCHANGED interruptsOff
           ELSE /\ interruptsOff' = FALSE
                /\ mainLoopPc' = "loop"
                /\ UNCHANGED revolutionTime
    /\ UNCHANGED <<isrVars, currentStatus, microsPerDegree, degreesPerMicro, angleVars, tempVars>>

\* microsPerDegree = div360(revolutionTime << microsPerDegree_Shift)
SetRevolutionTime_307 ==
    /\ mainLoopPc = "SetRevolutionTime_307"
    /\ microsPerDegree' = MicrosPerDegreeOf(revolutionTime)
    /\ mainLoopPc' = "SetRevolutionTime_308"
    /\ UNCHANGED <<isrVars, currentStatus, revolutionTime, degreesPerMicro, angleVars, interruptsOff, tempVars>>

\* degreesPerMicro = UDIV_ROUND_CLOSEST(360 << degreesPerMicro_Shift, revolutionTime)
SetRevolutionTime_308 ==
    /\ mainLoopPc = "SetRevolutionTime_308"
    /\ \E z \in DivZeroOutcomes : degreesPerMicro' = DegreesPerMicroOf(revolutionTime, z)
    /\ mainLoopPc' = "interrupts"
    /\ UNCHANGED <<isrVars, currentStatus, revolutionTime, microsPerDegree, angleVars, interruptsOff, tempVars>>

\* interrupts() after SetRevolutionTime
RevTimeInterrupts ==
    /\ mainLoopPc = "interrupts"
    /\ interruptsOff' = FALSE
    /\ mainLoopPc' = "RpmFromRevolutionTimeUs"
    /\ UNCHANGED <<isrVars, currentStatus, revVars, angleVars, tempVars>>

\* return RpmFromRevolutionTimeUs(revolutionTime), stored by the main loop
GetRPMReturn ==
    /\ mainLoopPc = "RpmFromRevolutionTimeUs"
    /\ \E z \in DivZeroOutcomes :
         currentStatus' = [currentStatus EXCEPT !.RPM = RpmFromRevolutionTimeUs(revolutionTime, z)]
    /\ mainLoopPc' = "loop"
    /\ UNCHANGED <<isrVars, revVars, angleVars, interruptsOff, tempVars>>

\* What noInterrupts() makes of the interrupt mask before the tooth state
\* is read
AngleReadUnmasked == FALSE

AngleReadMasked == TRUE

\* getCrankAngle(): noInterrupts()
GetCrankAngleNoInterrupts ==
    /\ decoder /= "null"
    /\ mainLoopPc = "loop"
    /\ interruptsOff' = AngleReadMasked
    /\ mainLoopPc' = "tempToothCurrentCount"
    /\ UNCHANGED <<isrVars, currentStatus, revVars, angleVars, tempVars>>

\* tempToothCurrentCount = toothCurrentCount
ReadToothCurrentCount ==
    /\ mainLoopPc = "tempToothCurrentCount"
    /\ tempToothCurrentCount' = toothCurrentCount
    /\ mainLoopPc' = IF decoder = "DualWheel" THEN "tempToothLastToothTime" ELSE "tempRevolutionOne"
    /\ UNCHANGED <<isrVars, currentStatus, revVars, angleVars, interruptsOff, tempRevolutionOne, tempToothLastToothTime>>

\* tempRevolutionOne = revolutionOne: the second read of the missing
\* tooth decoder, the third of the dual wheel
ReadRevolutionOne ==
    /\ mainLoopPc = "tempRevolutionOne"
    /\ tempRevolutionOne' = revolutionOne
    /\ mainLoopPc' = IF decoder = "DualWheel" THEN "lastCrankAngleCalc" ELSE "tempToothLastToothTime"
    /\ UNCHANGED <<isrVars, currentStatus, revVars, angleVars, interruptsOff, tempToothCurrentCount, tempToothLastToothTime>>

\* tempToothLastToothTime = toothLastToothTime: the third read of the
\* missing tooth decoder, the second of the dual wheel
ReadToothLastToothTime ==
    /\ mainLoopPc = "tempToothLastToothTime"
    /\ tempToothLastToothTime' = toothLastToothTime
    /\ mainLoopPc' = IF decoder = "DualWheel" THEN "tempRevolutionOne" ELSE "interrupts_angle"
    /\ UNCHANGED <<isrVars, currentStatus, revVars, angleVars, interruptsOff, tempToothCurrentCount, tempRevolutionOne>>

\* lastCrankAngleCalc = micros() of getCrankAngle_DualWheel, before
\* interrupts()
DualWheelLastCrankAngleCalc ==
    /\ mainLoopPc = "lastCrankAngleCalc"
    /\ lastCrankAngleCalc' = now
    /\ mainLoopPc' = "interrupts_angle"
    /\ UNCHANGED <<isrVars, currentStatus, revVars, crankAngle, elapsedTime, interruptsOff, tempVars>>

\* interrupts() of getCrankAngle
GetCrankAngleInterrupts ==
    /\ mainLoopPc = "interrupts_angle"
    /\ interruptsOff' = FALSE
    /\ mainLoopPc' = "crankAngle"
    /\ UNCHANGED <<isrVars, currentStatus, revVars, angleVars, tempVars>>

\* The angle getCrankAngle computes from what it read
CrankAngleOfTemps ==
    IF decoder = "DualWheel"
    THEN CrankAngleOf_DualWheel(tempToothCurrentCount, tempToothLastToothTime, tempRevolutionOne, lastCrankAngleCalc)
    ELSE CrankAngleOf_missingTooth(tempToothCurrentCount, tempToothLastToothTime, tempRevolutionOne, now)

\* The rest of getCrankAngle: the angle from the three temporaries, which
\* go out of scope
GetCrankAngleReturn ==
    /\ mainLoopPc = "crankAngle"
    /\ crankAngle' = CrankAngleOfTemps.ret
    /\ elapsedTime' = CrankAngleOfTemps.elapsedTime
    /\ lastCrankAngleCalc' = CrankAngleOfTemps.lastCrankAngleCalc
    /\ tempToothCurrentCount' = 0 /\ tempRevolutionOne' = FALSE /\ tempToothLastToothTime' = 0
    /\ mainLoopPc' = "loop"
    /\ UNCHANGED <<isrVars, currentStatus, revVars, interruptsOff>>

ForegroundConfigs ==
    {Config("DECODER_DUAL_WHEEL", 2, 0, CRANK_SPEED, 2, 0, "IGN_MODE_SEQUENTIAL", 10, "SEC_TRIGGER_SINGLE"),
     Config("DECODER_MISSING_TOOTH", 3, 1, CRANK_SPEED, 2, 0, "IGN_MODE_SEQUENTIAL", 10, "SEC_TRIGGER_SINGLE")}

InitForeground == InitQuiet({BootMicros}, ForegroundConfigs)

NextForeground ==
    \/ DualWell_triggerSetup
    \/ triggerSetup_missingTooth
    \/ Interrupt_triggerPri_DualWheel
    \/ Interrupt_triggerSec_DualWheel
    \/ Interrupt_triggerPri_missingTooth
    \/ GetRPMCall
    \/ RevTimeNoInterrupts
    \/ SetRevolutionTime_306
    \/ SetRevolutionTime_307
    \/ SetRevolutionTime_308
    \/ RevTimeInterrupts
    \/ GetRPMReturn
    \/ GetCrankAngleNoInterrupts
    \/ ReadToothCurrentCount
    \/ ReadRevolutionOne
    \/ ReadToothLastToothTime
    \/ DualWheelLastCrankAngleCalc
    \/ GetCrankAngleInterrupts
    \/ GetCrankAngleReturn

SpecForeground == InitForeground /\ [][NextForeground]_vars

\* ------------------------------------------------------------------------
\* The setup specification: the triggers are initialised again while the
\* decoder holds the state of a running engine
\* ------------------------------------------------------------------------

InitSetup == InitRpm

NextSetup ==
    \/ DualWell_triggerSetup_body
    \/ triggerSetup_missingTooth_body

SpecSetup == InitSetup /\ [][NextSetup]_vars

\* ------------------------------------------------------------------------
\* Properties of the dual wheel decoder
\* ------------------------------------------------------------------------

\* A step of triggerSec_DualWheel / triggerPri_DualWheel: only these write
\* curTime2 / curTime
SecEdgeStep == decoder = "DualWheel" /\ curTime2' /= curTime2

PriEdgeStep == decoder = "DualWheel" /\ curTime' /= curTime

\* C1: in triggerSec_DualWheel, a secondary edge whose gap is at least
\* triggerSecFilterTime, arriving while hasSync is false, leaves
\* toothCurrentCount = triggerTeeth and hasSync true
C1_SecEdgeEstablishesSync ==
    [][(SecEdgeStep /\ ~currentStatus.hasSync /\ UGe(curGap2', triggerSecFilterTime))
          => (toothCurrentCount' = configPage4.triggerTeeth /\ currentStatus'.hasSync)]_vars

\* C1 happens: sync was just established by the first accepted secondary edge
C1_Witness ==
    /\ currentStatus.hasSync
    /\ configPage4.StgCycles = 0
    /\ curTime2 = toothLastSecToothTime
    /\ toothCurrentCount = configPage4.triggerTeeth
    /\ toothLastMinusOneToothTime = USub(now, (MICROS_PER_MIN \div 10) \div configPage4.triggerTeeth)
    /\ currentStatus.startRevolutions = 0

\* C2: while hasSync is true the dual wheel tooth count lies in 1..triggerTeeth
C2_SyncedToothCountInRange ==
    (decoder = "DualWheel" /\ currentStatus.hasSync)
        => (1 <= toothCurrentCount /\ toothCurrentCount <= configPage4.triggerTeeth)

\* C2 happens: the count has wrapped from triggerTeeth to 1 twice while synced
C2_Witness ==
    /\ decoder = "DualWheel"
    /\ currentStatus.hasSync
    /\ toothCurrentCount = 1
    /\ toothOneMinusOneTime /= 0
    /\ toothOneTime = toothLastToothTime

\* C4: a primary edge triggerPri_DualWheel rejects (gap below
\* triggerFilterTime) changes none of toothCurrentCount, triggerFilterTime,
\* the tooth timestamps, revolutionOne and startRevolutions
C4_RejectedPriEdgeChangesNothing ==
    [][(PriEdgeStep /\ ULt(curGap', triggerFilterTime))
          => /\ UNCHANGED <<toothCurrentCount, triggerFilterTime, toothLastToothTime, toothLastMinusOneToothTime>>
             /\ UNCHANGED <<toothOneTime, toothOneMinusOneTime, revolutionOne>>
             /\ currentStatus'.startRevolutions = currentStatus.startRevolutions]_vars

\* C4 happens: the last primary edge was rejected while synced
C4_Witness ==
    /\ decoder = "DualWheel"
    /\ currentStatus.hasSync
    /\ curTime = now
    /\ curTime /= toothLastToothTime
    /\ curGap = USub(curTime, toothLastToothTime)
    /\ ULt(curGap, triggerFilterTime)

\* ------------------------------------------------------------------------
\* Properties of the crank angle
\* ------------------------------------------------------------------------

\* C3: the angle getCrankAngle_missingTooth / getCrankAngle_DualWheel returned
\* is at least 0 and below 720 in sequential operation, below 360 otherwise
C3_CrankAngleInRange ==
    decoder /= "null"
        => /\ 0 <= crankAngle
           /\ crankAngle < (IF configPage4.sparkMode = "IGN_MODE_SEQUENTIAL" THEN 720 ELSE 360)

\* ------------------------------------------------------------------------
\* Properties of the secondary input's filter
\* ------------------------------------------------------------------------

\* A step of triggerSec_DualWheel or triggerSec_missingTooth
SecInputStep == decoder \in {"DualWheel", "missingTooth"} /\ curTime2' /= curTime2

\* The fields a rejected secondary edge leaves alone in both decoders
SecRejectKeeps ==
    /\ UNCHANGED <<toothLastMinusOneSecToothTime, secondaryToothCount, toothCurrentCount, revolutionOne>>
    /\ currentStatus'.hasSync = currentStatus.hasSync

\* C5 as stated: a secondary edge whose gap is below triggerSecFilterTime
\* changes none of triggerSecFilterTime, toothLastSecToothTime,
\* toothLastMinusOneSecToothTime, secondaryToothCount, toothCurrentCount,
\* revolutionOne and hasSync
C5_RejectedSecEdgeChangesNothing ==
    [][(SecInputStep /\ ULt(curGap2', triggerSecFilterTime))
          => /\ SecRejectKeeps
             /\ UNCHANGED <<triggerSecFilterTime, toothLastSecToothTime>>]_vars

\* C5 amended: a secondary edge whose gap is below triggerSecFilterTime
\* keeps toothLastMinusOneSecToothTime, secondaryToothCount,
\* toothCurrentCount, revolutionOne and hasSync; triggerSec_DualWheel keeps
\* toothLastSecToothTime and sets triggerSecFilterTime to revolutionTime >> 1;
\* triggerSec_missingTooth keeps triggerSecFilterTime and keeps
\* toothLastSecToothTime unless that was 0, when it becomes the edge's time
C5_RejectedSecEdgeEffects ==
    [][(SecInputStep /\ ULt(curGap2', triggerSecFilterTime))
          => /\ SecRejectKeeps
             /\ decoder = "DualWheel"
                   => /\ toothLastSecToothTime' = toothLastSecToothTime
                      /\ triggerSecFilterTime' = UShr(revolutionTime, 1)
             /\ decoder = "missingTooth"
                   => /\ triggerSecFilterTime' = triggerSecFilterTime
                      /\ toothLastSecToothTime' = IF toothLastSecToothTime = 0 THEN curTime2'
                                                  ELSE toothLastSecToothTime]_vars

\* C5 happens: triggerSec_DualWheel rejected the last secondary edge and
\* took the filter from a revolution time getRPM had set
C5_Witness ==
    /\ decoder = "DualWheel"
    /\ curTime2 = now
    /\ toothLastSecToothTime /= 0
    /\ toothLastSecToothTime /= curTime2
    /\ curGap2 = USub(curTime2, toothLastSecToothTime)
    /\ revolutionTime /= 0
    /\ triggerSecFilterTime = UShr(revolutionTime, 1)
    /\ ULt(curGap2, triggerSecFilterTime)

\* ------------------------------------------------------------------------
\* Properties of the ignition end teeth
\* ------------------------------------------------------------------------

\* triggerSetEndTeeth() has written the end teeth
EndTeethWritten == decoder /= "null" /\ ignitionEndAngle \in EndAngleSets

\* The toothAdder of the decoder in use
toothAdderInUse == IF decoder = "DualWheel" THEN toothAdder_DualWheel ELSE toothAdder_missingTooth

C7_EndToothWithinActualTeeth ==
    (EndTeethWritten /\ decoder = "missingTooth")
        => \A c \in Channels : ignitionEndTooth[c] <= triggerActualTeeth + toothAdder_missingTooth

\* C7 happens: an end angle on the missing tooth came out as the last tooth
\* physically present
C7_Witness ==
    /\ EndTeethWritten
    /\ decoder = "missingTooth"
    /\ triggerActualTeeth = configPage4.triggerTeeth - configPage4.triggerMissingTeeth
    /\ \E c \in Channels : ignitionEndTooth[c] = triggerActualTeeth + toothAdder_missingTooth

\* ------------------------------------------------------------------------
\* Properties of the RPM
\* ------------------------------------------------------------------------

\* The tooth one delta, halved for a cam speed reference
ToothOneRevTime ==
    UShr(USub(toothOneTime, toothOneMinusOneTime), IF configPage4.TrigSpeed = CAM_SPEED THEN 1 ELSE 0)

\* 60,000,000 / revTime rounded to nearest
RpmOf(revTime) == UDIV_ROUND_CLOSEST(MICROS_PER_MIN, revTime)

\* The steady state case: sync, not cranking, both tooth one times recorded,
\* their delta not the stored revolution time, the RPM of it below MAX_RPM
SteadyStateCase ==
    /\ decoder /= "null"
    /\ currentStatus.hasSync
    /\ currentStatus.RPM >= currentStatus.crankRPM
    /\ toothOneTime /= 0
    /\ toothOneMinusOneTime /= 0
    /\ ToothOneRevTime /= revolutionTime
    /\ UGt(ToothOneRevTime, 0)
    /\ RpmOf(ToothOneRevTime) < MAX_RPM

\* What getRPM does in the steady state case
SteadyStateResult ==
    \A z \in DivZeroOutcomes :
        /\ getRPM(z).rev.revolutionTime = ToothOneRevTime
        /\ getRPM(z).ret = RpmOf(ToothOneRevTime)

\* C8 as stated: in the steady state case getRPM sets revolutionTime to the
\* tooth one delta (halved for cam speed) and returns 60,000,000 /
\* revolutionTime rounded to nearest
C8_SteadyStateRpm == SteadyStateCase => SteadyStateResult

\* C8 amended: the same, when tooth one was last seen at a larger timer
\* value than the time before (the timer did not wrap in between)
C8_SteadyStateRpmNoWrap ==
    (SteadyStateCase /\ UGt(toothOneTime, toothOneMinusOneTime)) => SteadyStateResult

\* C8 happens: on the missing tooth decoder, synced and tooth one seen twice
\* without a wrap in between, getRPM has taken the revolution time of
\* 20,000 us from the tooth one delta and returned 3000
C8_Witness ==
    /\ decoder = "missingTooth"
    /\ currentStatus.hasSync
    /\ toothOneMinusOneTime /= 0
    /\ UGt(toothOneTime, toothOneMinusOneTime)
    /\ ToothOneRevTime = 20000
    /\ revolutionTime = 20000
    /\ currentStatus.RPM = 3000

\* Sync is held and the primary teeth of the last revolution arrived
\* ToothGap apart
ConstantSpeed ==
    /\ decoder = "DualWheel"
    /\ currentStatus.hasSync
    /\ toothOneMinusOneTime /= 0
    /\ 1 <= toothCurrentCount /\ toothCurrentCount <= configPage4.triggerTeeth
    /\ toothOneTime = UAdd(toothOneMinusOneTime, configPage4.triggerTeeth * ToothGap)
    /\ toothLastToothTime = UAdd(toothOneTime, (toothCurrentCount - 1) * ToothGap)
    /\ toothLastMinusOneToothTime = USub(toothLastToothTime, ToothGap)

\* C9 as stated: at constant speed, tooth one events T apart, every getRPM
\* call after one full revolution returns round(60,000,000 / T)
C9_ConstantSpeedRpm ==
    ConstantSpeed
        => \A z \in DivZeroOutcomes : getRPM(z).ret = RpmOf(configPage4.triggerTeeth * ToothGap)

\* The timer did not wrap within the last revolution
NoWrapInRevolution ==
    /\ UGt(toothOneTime, toothOneMinusOneTime)
    /\ UGt(toothLastToothTime, toothLastMinusOneToothTime)

\* C9 amended: at constant speed, tooth one events T apart (T halved for a
\* cam speed wheel), without a timer wrap in the last revolution, every
\* getRPM call returns round(60,000,000 / T) once the RPM stored is at least
\* the cranking threshold or startRevolutions has reached StgCycles
C9_ConstantSpeedRpmAfterStaging ==
    (/\ ConstantSpeed
     /\ NoWrapInRevolution
     /\ \/ currentStatus.RPM >= currentStatus.crankRPM
        \/ currentStatus.startRevolutions >= configPage4.StgCycles)
        => \A z \in DivZeroOutcomes : getRPM(z).ret = RpmOf(ToothOneRevTime)

\* C9 happens: at constant speed getRPM has returned the RPM of the
\* revolution and is about to return it again
C9_Witness ==
    /\ ConstantSpeed
    /\ NoWrapInRevolution
    /\ revolutionTime = ToothOneRevTime
    /\ currentStatus.RPM = RpmOf(ToothOneRevTime)
    /\ currentStatus.RPM >= currentStatus.crankRPM

\* C10: when getRPM computes an RPM from a new revolution time, it returns
\* the RPM stored before if the computed one is at or above MAX_RPM, and
\* the computed one if it is below
C10_RpmGuard ==
    \A z \in DivZeroOutcomes :
        LET r == getRPM(z)
        IN  (r.rev.revolutionTime /= revolutionTime /\ UGt(r.rev.revolutionTime, 0))
                => r.ret = IF RpmOf(r.rev.revolutionTime) >= MAX_RPM
                           THEN currentStatus.RPM
                           ELSE RpmOf(r.rev.revolutionTime)

\* ------------------------------------------------------------------------
\* Properties of getRPM without sync
\* ------------------------------------------------------------------------

SecAcceptedStep ==
    SecEdgeStep /\ UGe(USub(curTime2', toothLastSecToothTime), triggerSecFilterTime)

\* C13 as stated: once synced, every accepted secondary pulse arriving with
\* toothCurrentCount different from triggerTeeth adds exactly one to
\* syncLossCounter, and one arriving with toothCurrentCount = triggerTeeth
\* leaves syncLossCounter unchanged
C13_SyncLossCounted ==
    [][(SecAcceptedStep /\ currentStatus.hasSync)
          => currentStatus'.syncLossCounter =
                IF toothCurrentCount /= configPage4.triggerTeeth
                THEN currentStatus.syncLossCounter + 1
                ELSE currentStatus.syncLossCounter]_vars

\* C13 amended: the pulse is counted only past the staging cycles and past
\* the second revolution; syncLossCounter is an 8 bit counter
C13_SyncLossCountedAfterStart ==
    [][(SecAcceptedStep /\ currentStatus.hasSync)
          => currentStatus'.syncLossCounter =
                IF /\ toothCurrentCount /= configPage4.triggerTeeth
                   /\ currentStatus.startRevolutions > configPage4.StgCycles
                   /\ currentStatus.startRevolutions > 2
                THEN (currentStatus.syncLossCounter + 1) % 256
                ELSE currentStatus.syncLossCounter]_vars

\* A pulse has been counted as a sync loss
C13_Witness ==
    /\ decoder = "DualWheel"
    /\ currentStatus.hasSync
    /\ currentStatus.syncLossCounter = 1
    /\ curTime2 = now
    /\ currentStatus.startRevolutions > 2

\* ------------------------------------------------------------------------
\* Properties of the setup functions
\* ------------------------------------------------------------------------

C14_SyncNeverDropped ==
    [][currentStatus.hasSync => currentStatus'.hasSync]_vars

\* A sync loss has been counted, getCrankAngle() has run since, and the
\* decoder is in sync
C14_Witness ==
    /\ decoder = "DualWheel"
    /\ currentStatus.syncLossCounter > 0
    /\ currentStatus.hasSync
    /\ lastCrankAngleCalc = now

\* ------------------------------------------------------------------------
\* Properties of the ownership of the primary input's state
\* ------------------------------------------------------------------------

\* A step of a secondary handler, a step of the tertiary handler
SecHandlerStep == curTime2' /= curTime2

ThirdHandlerStep == curTime3' /= curTime3

\* C15 as stated: no secondary or tertiary handler writes toothLastToothTime,
\* toothLastMinusOneToothTime, toothCurrentCount or triggerFilterTime
C15_PrimaryStateSingleWriter ==
    [][(SecHandlerStep \/ ThirdHandlerStep)
          => UNCHANGED <<toothLastToothTime, toothLastMinusOneToothTime, toothCurrentCount, triggerFilterTime>>]_vars

\* C15 amended: triggerSec_missingTooth and triggerThird_missingTooth write
\* none of the four; triggerSec_DualWheel on an accepted edge writes all
\* four in its sync branch (tooth time = time of the call, the one before
\* it 6 s / triggerTeeth earlier, count = triggerTeeth, filter = 0), and
\* otherwise only the count, to triggerTeeth, when useResync is set
C15_PrimaryStateWriters ==
    [][/\ (decoder = "missingTooth" /\ (SecHandlerStep \/ ThirdHandlerStep))
            => UNCHANGED <<toothLastToothTime, toothLastMinusOneToothTime, toothCurrentCount, triggerFilterTime>>
       /\ (decoder = "DualWheel" /\ SecHandlerStep)
            => IF UGe(USub(curTime2', toothLastSecToothTime), triggerSecFilterTime)
               THEN IF currentStatus.hasSync = FALSE \/ currentStatus.startRevolutions <= configPage4.StgCycles
                    THEN /\ UGe(toothLastToothTime', curTime2')
                         /\ ULe(toothLastToothTime', now')
                         /\ toothLastMinusOneToothTime' = USub(now', (MICROS_PER_MIN \div 10) \div configPage4.triggerTeeth)
                         /\ toothCurrentCount' = configPage4.triggerTeeth
                         /\ triggerFilterTime' = 0
                    ELSE /\ UNCHANGED <<toothLastToothTime, toothLastMinusOneToothTime, triggerFilterTime>>
                         /\ toothCurrentCount' = IF configPage4.useResync = 1
                                                 THEN configPage4.triggerTeeth
                                                 ELSE toothCurrentCount
               ELSE UNCHANGED <<toothLastToothTime, toothLastMinusOneToothTime, toothCurrentCount, triggerFilterTime>>]_vars

\* triggerSec_DualWheel has written the primary input's state before any
\* primary edge arrived
C15_Witness ==
    /\ decoder = "DualWheel"
    /\ curTime = 0
    /\ curTime2 /= 0
    /\ UGe(toothLastToothTime, curTime2)
    /\ toothCurrentCount = configPage4.triggerTeeth
    /\ triggerFilterTime = 0

\* ------------------------------------------------------------------------
\* Properties of the first edge on the secondary and the tertiary input
\* ------------------------------------------------------------------------

\* The first edge ever on the secondary / tertiary input of the missing
\* tooth decoder
SecFirstEdge == decoder = "missingTooth" /\ SecHandlerStep /\ toothLastSecToothTime = 0

ThirdFirstEdge == decoder = "missingTooth" /\ ThirdHandlerStep /\ toothLastThirdToothTime = 0

\* C18 as stated: the first edge on the secondary and on the tertiary input
\* runs the accepted branch (the tooth time is recorded, the filter is
\* recomputed from the gap, the tertiary tooth is counted) whatever the
\* filter duration of the input is
C18_FirstEdgeAccepted ==
    [][/\ SecFirstEdge => (toothLastSecToothTime' = curTime2' /\ triggerSecFilterTime' = 0)
       /\ ThirdFirstEdge => /\ toothLastThirdToothTime' = curTime3'
                            /\ triggerThirdFilterTime' = 0
                            /\ thirdToothCount' = thirdToothCount + 1]_vars

\* C18 amended: the first edge is given the gap 0 and its time is recorded;
\* it runs the accepted branch only if the filter duration of its input is
\* 0, and is rejected otherwise
C18_FirstEdgeAcceptedOnZeroFilter ==
    [][/\ SecFirstEdge
            => /\ curGap2' = 0
               /\ toothLastSecToothTime' = curTime2'
               /\ IF triggerSecFilterTime = 0
                  THEN triggerSecFilterTime' = 0
                  ELSE UNCHANGED <<triggerSecFilterTime, secondaryToothCount, revolutionOne, toothLastMinusOneSecToothTime,
                                   targetGap2, currentStatus>>
       /\ ThirdFirstEdge
            => /\ curGap3' = 0
               /\ toothLastThirdToothTime' = curTime3'
               /\ IF triggerThirdFilterTime = 0
                  THEN triggerThirdFilterTime' = 0 /\ thirdToothCount' = thirdToothCount + 1
                  ELSE UNCHANGED <<triggerThirdFilterTime, thirdToothCount, currentStatus>>]_vars

\* The first secondary edge after triggerSetup_missingTooth has been
\* rejected and the first tertiary edge accepted
C18_Witness ==
    /\ decoder = "missingTooth"
    /\ curTime2 /= 0
    /\ toothLastSecToothTime = curTime2
    /\ curGap2 = 0
    /\ secondaryToothCount = 0
    /\ ~revolutionOne
    /\ curTime3 /= 0
    /\ toothLastThirdToothTime = curTime3
    /\ thirdToothCount = 1

\* ------------------------------------------------------------------------
\* Properties of the primary handler of the missing tooth pattern
\* ------------------------------------------------------------------------

\* An accepted primary edge of the missing tooth decoder
PriMissingToothAcceptedStep ==
    decoder = "missingTooth" /\ curTime' /= curTime /\ toothLastToothTime' = curTime'

StallPollStep ==
    /\ decoder /= "null"
    /\ decoder' = decoder
    /\ curTime' = curTime
    /\ curTime2' = curTime2

ToothStateNow == <<toothCurrentCount, revolutionOne, toothLastToothTime>>

\* C16: however edge interrupts interleave with a foreground
\* getCrankAngle_missingTooth or getCrankAngle_DualWheel call, the tooth
\* count, revolution flag and last tooth time the angle is computed from
\* are the values the three globals hold together in one state: at
\* interrupts() the temporaries equal the globals, and the angle is
\* computed from those temporaries
C16_NoTornRead ==
    [][/\ (mainLoopPc = "interrupts_angle" /\ mainLoopPc' = "crankAngle")
            => /\ tempVars = ToothStateNow
               /\ tempVars' = tempVars
       /\ (mainLoopPc = "crankAngle" /\ mainLoopPc' = "crankAngle") => tempVars' = tempVars
       /\ (mainLoopPc = "crankAngle" /\ mainLoopPc' = "loop") => crankAngle' = CrankAngleOfTemps.ret]_vars

C16_Witness ==
    /\ mainLoopPc = "crankAngle"
    /\ decoder = "DualWheel"
    /\ currentStatus.hasSync
    /\ tempToothCurrentCount /= 0
    /\ tempToothLastToothTime /= 0
    /\ tempToothLastToothTime /= toothLastToothTime
    /\ tempToothCurrentCount /= toothCurrentCount

\* C17: only the statements of SetRevolutionTime write revolutionTime,
\* microsPerDegree and degreesPerMicro, they run with interrupts masked,
\* and whenever interrupts are enabled microsPerDegree and degreesPerMicro
\* are both what SetRevolutionTime derives from the current revolutionTime
C17_RevolutionTimeConsistent ==
    /\ [](~interruptsOff =>
            /\ microsPerDegree = MicrosPerDegreeOf(revolutionTime)
            /\ \E z \in DivZeroOutcomes : degreesPerMicro = DegreesPerMicroOf(revolutionTime, z))
    /\ [][revVars' /= revVars =>
            /\ interruptsOff /\ interruptsOff'
            /\ mainLoopPc \in {"crankingGetRPM_380", "UpdateRevolutionTimeFromTeeth_316",
                               "SetRevolutionTime_307", "SetRevolutionTime_308"}]_vars

C17_Witness ==
    /\ mainLoopPc = "RpmFromRevolutionTimeUs"
    /\ ~interruptsOff
    /\ revolutionTime /= 0
    /\ microsPerDegree /= 0
    /\ degreesPerMicro /= 0
    /\ currentStatus.RPM /= 0

\* An accepted edge on the secondary input of the missing tooth decoder with
\* a single tooth cam wheel: it sets revolutionOne and records the VVT angle
SecSingleAcceptedStep ==
    /\ decoder = "missingTooth"
    /\ configPage4.trigPatternSec = "SEC_TRIGGER_SINGLE"
    /\ curTime2' /= curTime2
    /\ UGe(curGap2', triggerSecFilterTime)

\* What getCrankAngle() returns inside a handler of the missing tooth
\* decoder that ends at now'
AngleAtCapture(revOne) ==
    CrankAngleOf_missingTooth(toothCurrentCount, toothLastToothTime, revOne, now').ret

\* An angle brought to 360 or below by taking off 360 as often as needed
Below360(a) == IF a > 360 THEN ((a - 1) % 360) + 1 ELSE a

\* The closed loop offset, taken off in closed loop mode only
ClosedLoopOffset(offset) == IF configPage6.vvtClosedLoop THEN offset ELSE 0

\* C21 as stated: the angle before the filter is the crank angle at the edge
\* less the trigger angle and, in closed loop mode, the closed loop offset,
\* and the filter gets twice that angle
C21_Vvt1Capture ==
    [][(SecSingleAcceptedStep /\ configPage6.vvtEnabled > 0) =>
          LET pre == AngleAtCapture(TRUE) - configPage4.triggerAngle - ClosedLoopOffset(configPage10.vvtCL0DutyAng)
          IN  currentStatus'.vvt1Angle =
                 I8Of(ANGLE_FILTER(2 * pre, configPage4.ANGLEFILTER_VVT, currentStatus.vvt1Angle))]_vars

\* C21: with VVT enabled and revolutionOne set, the angle before the filter
\* is the crank angle getCrankAngle() returns at the edge, less 360 as long
\* as it is above 360, less the trigger angle and, in closed loop mode only,
\* the closed loop offset; the filter gets exactly twice that angle
C21_Vvt1CaptureWithin360 ==
    [][(SecSingleAcceptedStep /\ configPage6.vvtEnabled > 0) =>
          LET pre == Below360(AngleAtCapture(TRUE)) - configPage4.triggerAngle - ClosedLoopOffset(configPage10.vvtCL0DutyAng)
          IN  currentStatus'.vvt1Angle =
                 I8Of(ANGLE_FILTER(2 * pre, configPage4.ANGLEFILTER_VVT, currentStatus.vvt1Angle))]_vars

C21_Witness ==
    /\ decoder = "missingTooth"
    /\ configPage6.vvtEnabled > 0 /\ configPage6.vvtClosedLoop
    /\ revolutionOne = TRUE
    /\ toothLastSecToothTime = now - 4
    /\ lastCrankAngleCalc = now
    /\ toothCurrentCount = 2
    /\ currentStatus.vvt1Angle /= 0

\* An accepted edge on the third input
ThirdAcceptedStep ==
    /\ decoder = "missingTooth"
    /\ curTime3' /= curTime3
    /\ UGe(curGap3', triggerThirdFilterTime)

\* C22: on an accepted tertiary edge the vvt2Angle stored depends on the
\* capture alone, twice the crank angle less the trigger angle and the
\* closed loop offset, and not on the vvt2Angle before: no smoothing
C22_Vvt2Unfiltered ==
    [][ThirdAcceptedStep =>
          LET pre == Below360(AngleAtCapture(revolutionOne)) - configPage4.triggerAngle - ClosedLoopOffset(configPage4.vvt2CL0DutyAng)
          IN  currentStatus'.vvt2Angle = I8Of(2 * pre)]_vars

\* A getCrankAngle() call of the main loop
GetCrankAngleStep == lastCrankAngleCalc' /= lastCrankAngleCalc /\ UNCHANGED <<curTime, curTime2, curTime3>>

\* No edge has been accepted since the getCrankAngle() call before: the
\* call came after the last accepted tooth and after the last edge on the
\* secondary input
NoEdgeSinceLastCall ==
    /\ lastCrankAngleCalc /= 0
    /\ UGe(lastCrankAngleCalc, toothLastToothTime)
    /\ elapsedTime = USub(lastCrankAngleCalc, toothLastToothTime)
    /\ UGe(lastCrankAngleCalc, curTime2)

\* The stored angle is what getCrankAngle() gives at the time of the call
\* before with the revolution time as it is now
SameRevolutionTime == crankAngle = getCrankAngle(lastCrankAngleCalc).ret

\* dt * degreesPerMicro / 2^15 rounded to nearest, for products below 2^31
RoundedTimeToAngle(dt) == (dt * degreesPerMicro + 16384) \div 32768

\* C23 as stated: of two consecutive getCrankAngle() calls without an
\* accepted edge in between the second returns no less than the first
\* unless its angle wrapped past 720, and where the first was computed with
\* the revolution time of the second they differ by timeToAngle(later
\* elapsed time) less timeToAngle(earlier elapsed time)
C23_ConsecutiveAngles ==
    [][(GetCrankAngleStep /\ NoEdgeSinceLastCall) =>
          /\ crankAngle' >= crankAngle \/ getCrankAngle(now').unwrapped >= 720
          /\ SameRevolutionTime =>
                LET delta == RoundedTimeToAngle(elapsedTime') - RoundedTimeToAngle(elapsedTime)
                IN  crankAngle' \in {crankAngle + delta, crankAngle + delta - 720}]_vars

\* C23: two consecutive getCrankAngle() calls without an accepted edge and
\* without a change of the revolution time in between differ by
\* timeToAngle(later elapsed time) less timeToAngle(earlier elapsed time),
\* which is not negative, but for a wrap of the second by 720 or by
\* CRANK_ANGLE_MAX: the second is not below the first unless it wrapped
C23_ConsecutiveAnglesSameRevolutionTime ==
    [][(GetCrankAngleStep /\ NoEdgeSinceLastCall /\ SameRevolutionTime) =>
          LET delta == RoundedTimeToAngle(elapsedTime') - RoundedTimeToAngle(elapsedTime)
          IN  /\ delta >= 0
              /\ crankAngle' \in {crankAngle + delta, crankAngle + delta - 720, crankAngle + delta - CRANK_ANGLE_MAX}]_vars

C23_Witness ==
    /\ currentStatus.hasSync
    /\ degreesPerMicro /= 0
    /\ lastCrankAngleCalc = now
    /\ elapsedTime = ToothGap
    /\ toothLastToothTime = USub(now, ToothGap)
    /\ UGe(toothLastToothTime, curTime2)
    /\ crankAngle = getCrankAngle(toothLastToothTime).ret + RoundedTimeToAngle(ToothGap)
    /\ RoundedTimeToAngle(ToothGap) > 0

\* C24: after an edge has been handled, BIT_DECODER_VALID_TRIGGER is set in
\* decoderState if and only if that edge passed the filter of its input; an
\* edge rejected as noise leaves the bit clear
C24_ValidTriggerBit ==
    [][/\ PriEdgeStep =>
            (BIT_DECODER_VALID_TRIGGER \in decoderState' <=> UGe(curGap', triggerFilterTime))
       /\ SecEdgeStep =>
            (BIT_DECODER_VALID_TRIGGER \in decoderState' <=> UGe(curGap2', triggerSecFilterTime))]_vars

\* ------------------------------------------------------------------------
\* The filter specification: a two-tooth dual wheel at each debounce level
\* ------------------------------------------------------------------------

FilterLevels == 0 .. 3

FilterConfigs ==
    {Config("DECODER_DUAL_WHEEL", 2, 0, CRANK_SPEED, filter, 0, "IGN_MODE_SEQUENTIAL", 10, "SEC_TRIGGER_SINGLE") :
        filter \in FilterLevels}

InitFilter == InitWith({BootMicros}, FilterConfigs)

NextFilter ==
    \/ DualWell_triggerSetup
    \/ triggerPri_DualWheel
    \/ triggerSec_DualWheel
    \/ MainLoopGetRPM

SpecFilter == InitFilter /\ [][NextFilter]_vars

\* An accepted primary edge of the dual wheel decoder
PriAcceptedStep == PriEdgeStep /\ UGe(curGap', triggerFilterTime)

\* C25: in triggerPri_DualWheel while synced, an accepted primary edge that
\* takes the tooth index past triggerTeeth resets the index to 1, flips
\* revolutionOne, moves toothOneTime into toothOneMinusOneTime, sets
\* toothOneTime to the edge's timestamp and adds 1 (2 at cam speed) to
\* startRevolutions; an accepted edge that does not wrap changes none of
\* revolutionOne, toothOneTime, toothOneMinusOneTime and startRevolutions
C25_PrimaryWrap ==
    [][(PriAcceptedStep /\ currentStatus.hasSync) =>
          IF toothCurrentCount + 1 > configPage4.triggerTeeth
          THEN /\ toothCurrentCount' = 1
               /\ revolutionOne' = ~revolutionOne
               /\ toothOneMinusOneTime' = toothOneTime
               /\ toothOneTime' = curTime'
               /\ currentStatus'.startRevolutions =
                     currentStatus.startRevolutions + (IF configPage4.TrigSpeed = CAM_SPEED THEN 2 ELSE 1)
          ELSE /\ revolutionOne' = revolutionOne
               /\ toothOneTime' = toothOneTime
               /\ toothOneMinusOneTime' = toothOneMinusOneTime
               /\ currentStatus'.startRevolutions = currentStatus.startRevolutions]_vars

\* A second wrap at cam speed: both tooth one times are those of wraps and
\* the two wraps have counted four revolutions
C25_Witness ==
    /\ decoder = "DualWheel"
    /\ configPage4.TrigSpeed = CAM_SPEED
    /\ currentStatus.hasSync
    /\ toothCurrentCount = 1
    /\ toothOneTime = curTime
    /\ toothOneMinusOneTime /= 0
    /\ currentStatus.startRevolutions = 4

\* The debounce fraction of a gap, by division
FilterFractionOf(level, g) ==
    CASE level = 1 -> g \div 4
      [] level = 2 -> g \div 2
      [] level = 3 -> (3 * g) \div 4
      [] OTHER -> 0

\* C26 as stated: after every accepted primary edge, whether or not sync
\* has been achieved, triggerFilterTime is 0, g/4, g/2 or 3g/4 of that
\* edge's gap g for debounce level 0, 1, 2, 3
C26_FilterRecomputed ==
    [][PriAcceptedStep => triggerFilterTime' = FilterFractionOf(configPage4.triggerFilter, curGap')]_vars

\* C26: after an accepted primary edge while synced, triggerFilterTime is
\* 0, g/4, g/2 or 3g/4 of that edge's gap g for debounce level 0, 1, 2, 3;
\* an accepted edge before sync leaves triggerFilterTime as it was
C26_FilterRecomputedWhileSynced ==
    [][PriAcceptedStep =>
          IF currentStatus.hasSync
          THEN triggerFilterTime' = FilterFractionOf(configPage4.triggerFilter, curGap')
          ELSE triggerFilterTime' = triggerFilterTime]_vars

\* A synced primary edge at debounce level 3 has left three quarters of its
\* gap in triggerFilterTime
C26_Witness ==
    /\ decoder = "DualWheel"
    /\ configPage4.triggerFilter = 3
    /\ currentStatus.hasSync
    /\ toothLastToothTime = curTime
    /\ curGap = ToothGap
    /\ triggerFilterTime = (3 * ToothGap) \div 4
    /\ toothLastSecToothTime /= curTime

\* ------------------------------------------------------------------------
\* The per tooth ignition specification: a two-tooth dual wheel with per
\* tooth ignition enabled, the main loop handing over end angles, the
\* cranking bit as the main loop left it
\* ------------------------------------------------------------------------

PerToothConfigs ==
    {Config("DECODER_DUAL_WHEEL", 2, 0, CRANK_SPEED, 2, 0, spark, 10, "SEC_TRIGGER_SINGLE") :
        spark \in {"IGN_MODE_WASTED", "IGN_MODE_SEQUENTIAL"}}

InitPerTooth ==
    /\ bootTime = BootMicros
    /\ noiseTicks = MaxNoise
    /\ InitGlobals
    /\ \E cranking \in BOOLEAN :
          currentStatus = [hasSync |-> FALSE, halfSync |-> FALSE, RPM |-> 0, crankRPM |-> 400,
                           startRevolutions |-> 0, syncLossCounter |-> 0, engineCrank |-> cranking,
                           vvt1Angle |-> 0, vvt2Angle |-> 0]
    /\ configPage4 \in PerToothConfigs
    /\ configPage2 = [perToothIgn |-> TRUE, strokes |-> "FOUR_STROKE", injLayoutSequential |-> FALSE]
    /\ configPage6 = [vvtEnabled |-> 0, vvtClosedLoop |-> FALSE]
    /\ configPage10 = [vvtCL0DutyAng |-> 0]
    /\ CRANK_ANGLE_MAX = IF configPage4.sparkMode = "IGN_MODE_SEQUENTIAL" THEN 720 ELSE 360

NextPerTooth ==
    \/ DualWell_triggerSetup
    \/ triggerPri_DualWheel
    \/ triggerSec_DualWheel
    \/ MainLoopGetRPM
    \/ MainLoopSetEndTeeth

SpecPerTooth == InitPerTooth /\ [][NextPerTooth]_vars

\* The tooth number triggerPri_DualWheel hands to checkPerToothTiming
PerToothCurrentTooth ==
    IF configPage4.sparkMode = "IGN_MODE_SEQUENTIAL" /\ revolutionOne /\ configPage4.TrigSpeed = CRANK_SPEED
    THEN configPage4.triggerTeeth + toothCurrentCount
    ELSE toothCurrentCount

\* C27: on every accepted primary edge while per tooth ignition is enabled
\* and the engine turns and is not cranking, adjustCrankAngle is invoked
\* for every channel whose end tooth equals the current tooth, also when
\* two or more channels share that end tooth
C27_PerToothEveryChannel ==
    [][(PriAcceptedStep /\ configPage2.perToothIgn /\ ~currentStatus.engineCrank /\ currentStatus.RPM > 0)
          => \A c \in Channels :
                ignitionEndTooth[c] = PerToothCurrentTooth' => c \in timingAdjust'.channels]_vars

\* The three conditions under which crankingGetRPM estimates nothing
CrankingHeldBack ==
    \/ currentStatus.startRevolutions < configPage4.StgCycles
    \/ ~(currentStatus.hasSync \/ currentStatus.halfSync)
    \/ ~(toothLastMinusOneToothTime /= 0 /\ UGt(toothLastToothTime, toothLastMinusOneToothTime))

\* C28: crankingGetRPM leaves revolutionTime, microsPerDegree and
\* degreesPerMicro unchanged and returns the previous RPM whenever
\* startRevolutions < StgCycles, or neither hasSync nor half sync holds, or
\* the two most recent tooth times are not strictly increasing with a
\* non-zero older one; otherwise revolutionTime becomes the gap between the
\* last two teeth times the tooth count, halved at cam speed
C28_CrankingGate ==
    \A z \in DivZeroOutcomes :
        LET isCam == configPage4.TrigSpeed = CAM_SPEED
            r     == crankingGetRPM(configPage4.triggerTeeth, isCam, z)
            gap   == USub(toothLastToothTime, toothLastMinusOneToothTime)
        IN  IF CrankingHeldBack
            THEN /\ r.rev.revolutionTime = revolutionTime
                 /\ r.rev.microsPerDegree = microsPerDegree
                 /\ r.rev.degreesPerMicro = degreesPerMicro
                 /\ r.ret = currentStatus.RPM
            ELSE r.rev.revolutionTime = (gap * configPage4.triggerTeeth) \div (IF isCam THEN 2 ELSE 1)

\* getRPM() has taken the cranking route at cam speed past the staging
\* cycles: the revolution time is the last gap times the tooth count, halved
C28_Witness ==
    /\ decoder = "DualWheel"
    /\ configPage4.TrigSpeed = CAM_SPEED
    /\ configPage4.StgCycles > 0
    /\ ~CrankingHeldBack
    /\ revolutionTime = (ToothGap * configPage4.triggerTeeth) \div 2
    /\ currentStatus.RPM > 0

\* What the division of calcEndTeeth_* yields for an end angle
EndToothQuotient(angle, z) ==
    IF triggerToothAngle = 0 THEN I16Of(z)
    ELSE I16Of(CDiv(angle - configPage4.triggerAngle, I16Of(triggerToothAngle)))

\* tempEndTooth of the decoder in use
tempEndToothInUse(angle, z) ==
    IF decoder = "DualWheel" THEN tempEndTooth_DualWheel(angle, z) ELSE tempEndTooth_missingTooth(angle, z)

\* C29: with more than 12 teeth the end tooth of both patterns is,
\* before clamping, one less than the truncated quotient
\* (angle - triggerAngle) / toothAngle; with 12 teeth or fewer it is the
\* quotient
C29_EndToothMargin ==
    EndTeethWritten
        => \A c \in Channels, z \in DivZeroOutcomes :
              tempEndToothInUse(ignitionEndAngle[c], z) =
                  I16Of(EndToothQuotient(ignitionEndAngle[c], z) - (IF configPage4.triggerTeeth > 12 THEN 1 ELSE 0))

\* Elapsed times and angles handed to the two conversions
ConvTimes == {0, 1, 21, 5000, 600000, 4000000}

ConvAngles == {0, 1, 90, 360, 720, 65535}

\* dt x degreesPerMicro / 2^15 rounded to the nearest integer, halves up,
\* in unbounded arithmetic (dt split at 2^15 to stay inside the checker's
\* integers)
ExactTimeToAngle(dt) ==
    (dt \div 32768) * degreesPerMicro + ((dt % 32768) * degreesPerMicro + 16384) \div 32768

\* angle x microsPerDegree / 2^8 rounded to the nearest integer, halves up,
\* in unbounded arithmetic (microsPerDegree split at 2^8)
ExactAngleToTime(angle) ==
    angle * (microsPerDegree \div 256) + (angle * (microsPerDegree % 256) + 128) \div 256

\* C30 as stated: for every elapsed time and every angle the conversions
\* return the exact product divided by 2^15 and 2^8, rounded to nearest
C30_ConversionsRound ==
    /\ \A dt \in ConvTimes : timeToAngleDegPerMicroSec(dt) = ExactTimeToAngle(dt)
    /\ \A angle \in ConvAngles : angleToTimeMicroSecPerDegree(angle) = ExactAngleToTime(angle)

\* C30: the conversions return the exact product divided by 2^15 and 2^8,
\* rounded to nearest, whenever the rounded angle is below 2^16 and the
\* rounded time is below 2^24
C30_ConversionsRoundInRange ==
    /\ \A dt \in ConvTimes :
          ExactTimeToAngle(dt) < Two16 => timeToAngleDegPerMicroSec(dt) = ExactTimeToAngle(dt)
    /\ \A angle \in ConvAngles :
          ExactAngleToTime(angle) < 256 * Two16 => angleToTimeMicroSecPerDegree(angle) = ExactAngleToTime(angle)

\* getRPM() has stored a revolution time, and both conversions round a
\* product up that truncation would round down
C30_Witness ==
    /\ revolutionTime \notin {stored.revolutionTime : stored \in StoredRpms}
    /\ currentStatus.RPM > 0
    /\ \E dt \in ConvTimes :
          /\ ExactTimeToAngle(dt) < Two16
          /\ (dt * degreesPerMicro) % 32768 >= 16384
          /\ timeToAngleDegPerMicroSec(dt) = (dt * degreesPerMicro) \div 32768 + 1
    /\ \E angle \in ConvAngles :
          /\ ExactAngleToTime(angle) < 256 * Two16
          /\ (angle * microsPerDegree) % 256 >= 128
          /\ angleToTimeMicroSecPerDegree(angle) = (angle * microsPerDegree) \div 256 + 1

\* A setup function has run on the state after boot
SetupStep == decoder = "null" /\ decoder' /= "null"

\* The tooth angle a setup derives from the tooth count and the speed domain
SetupToothAngle ==
    IF configPage4.TrigSpeed = CAM_SPEED THEN 720 \div configPage4.triggerTeeth
    ELSE 360 \div configPage4.triggerTeeth

\* C31: after DualWell::triggerSetup, and likewise triggerSetup_missingTooth,
\* MAX_STALL_TIME is the microseconds per degree at 50 RPM times the tooth
\* angle that setup call derived from the tooth count and the speed domain,
\* times missing teeth + 1 for the missing tooth pattern
C31_StallTimeFromSetup ==
    [][SetupStep =>
          MAX_STALL_TIME' = (MICROS_PER_DEG_1_RPM \div 50) * SetupToothAngle
                               * (IF decoder' = "missingTooth" THEN configPage4.triggerMissingTeeth + 1 ELSE 1)]_vars

\* Twice the angle before the filter of a VVT1 capture that ends at now'
Vvt1Target ==
    2 * (Below360(AngleAtCapture(TRUE)) - configPage4.triggerAngle - ClosedLoopOffset(configPage10.vvtCL0DutyAng))

\* v lies between a and b, ends included
Between(a, v, b) == (a <= v /\ v <= b) \/ (b <= v /\ v <= a)

\* C32: a VVT1 capture at the angle A before the filter leaves vvt1Angle
\* between the prior vvt1Angle and 2A, without overshooting 2A, and repeated
\* captures at the same A reach 2A after finitely many captures: a capture
\* that leaves vvt1Angle where it was finds it at 2A
C32_Vvt1Converges ==
    [][(SecSingleAcceptedStep /\ configPage6.vvtEnabled > 0) =>
          /\ Between(currentStatus.vvt1Angle, currentStatus'.vvt1Angle, Vvt1Target)
          /\ currentStatus'.vvt1Angle = currentStatus.vvt1Angle => currentStatus.vvt1Angle = Vvt1Target]_vars

\* ------------------------------------------------------------------------
\* The cam wheel specification: a missing tooth decoder whose secondary
\* input is a four-teeth-per-revolution cam wheel
\* ------------------------------------------------------------------------

CamConfigs ==
    {Config("DECODER_MISSING_TOOTH", 4, 1, CRANK_SPEED, 2, 0, "IGN_MODE_SEQUENTIAL", 10, "SEC_TRIGGER_4_1")}

InitCam == InitQuiet({BootMicros}, CamConfigs)

NextCam ==
    \/ triggerSetup_missingTooth
    \/ triggerSec_missingTooth_cam

SpecCam == InitCam /\ [][NextCam]_vars

\* An accepted secondary edge of the missing tooth decoder in the
\* four-teeth-per-revolution sub-mode
Sec41AcceptedStep ==
    /\ decoder = "missingTooth"
    /\ configPage4.trigPatternSec = "SEC_TRIGGER_4_1"
    /\ curTime2' /= curTime2
    /\ UGe(curGap2', triggerSecFilterTime)

\* C33: in the SEC_TRIGGER_4_1 sub-mode an accepted secondary edge resets
\* secondaryToothCount to 1, sets revolutionOne and zeroes
\* triggerSecFilterTime exactly when its gap is at least 1.5 times the gap
\* before it or secondaryToothCount is above 3, and otherwise increments
\* secondaryToothCount; secondaryToothCount never exceeds 4
C33_CamToothCount ==
    /\ [][Sec41AcceptedStep =>
            LET lastSec == IF toothLastSecToothTime = 0 THEN curTime2' ELSE toothLastSecToothTime
                before  == USub(lastSec, toothLastMinusOneSecToothTime)
            IN  IF UGe(curGap2', UShr(UMul(before, 3), 1)) \/ secondaryToothCount > 3
                THEN /\ secondaryToothCount' = 1
                     /\ revolutionOne' = TRUE
                     /\ triggerSecFilterTime' = 0
                ELSE /\ secondaryToothCount' = secondaryToothCount + 1
                     /\ revolutionOne' = revolutionOne
                     /\ triggerSecFilterTime' = UShr(curGap2', 2)]_vars
    /\ []((decoder = "missingTooth" /\ configPage4.trigPatternSec = "SEC_TRIGGER_4_1") => secondaryToothCount <= 4)

\* The fifth regular tooth in a row: the count was above 3, so the edge
\* reset it although its gap was below the target
C33_Witness ==
    /\ decoder = "missingTooth"
    /\ configPage4.trigPatternSec = "SEC_TRIGGER_4_1"
    /\ secondaryToothCount = 1
    /\ revolutionOne = TRUE
    /\ triggerSecFilterTime = 0
    /\ toothLastSecToothTime = curTime2
    /\ curGap2 = ToothGap
    /\ ULt(curGap2, targetGap2)

\* The end angles calcEndTeeth_missingTooth is evaluated for
AnyEndAngles == -360 .. 720

\* A tooth index of the first revolution at which no tooth exists
MissingToothPosition(tooth) == tooth > triggerActualTeeth /\ tooth <= configPage4.triggerTeeth

\* C34: for every end angle and toothAdder 0 or triggerTeeth, what
\* calcEndTeeth_missingTooth returns is never a tooth index in
\* (triggerActualTeeth, triggerTeeth], and so no end tooth written is
C34_NoMissingToothPosition ==
    decoder = "missingTooth"
        => /\ \A angle \in AnyEndAngles, adder \in {0, configPage4.triggerTeeth}, z \in DivZeroOutcomes :
                 ~MissingToothPosition(calcEndTeeth_missingTooth(angle, adder, z))
           /\ EndTeethWritten => \A c \in Channels : ~MissingToothPosition(ignitionEndTooth[c])

\* An end angle whose tooth, clamped to the tooth count, was the missing
\* tooth: the end tooth written is the last tooth that exists
C34_Witness ==
    /\ decoder = "missingTooth"
    /\ EndTeethWritten
    /\ \E c \in Channels :
          /\ MissingToothPosition(clampToToothCount(tempEndTooth_missingTooth(ignitionEndAngle[c], 0), toothAdder_missingTooth))
          /\ ignitionEndTooth[c] = triggerActualTeeth

\* The timer wrapped between the last two sightings of tooth one, or tooth
\* one was seen once only
ToothOneTimesUnusable == ULe(toothOneTime, toothOneMinusOneTime) \/ toothOneMinusOneTime = 0

\* getRPM() of the attached decoder is a call of stdGetRPM
GetRPMIsStd ==
    /\ currentStatus.RPM >= currentStatus.crankRPM
    /\ decoder = "DualWheel" => currentStatus.hasSync

\* C35: when toothOneTime <= toothOneMinusOneTime or toothOneMinusOneTime = 0,
\* stdGetRPM leaves revolutionTime, microsPerDegree and degreesPerMicro as
\* they were and returns the RPM stored before, and a main loop whose
\* getRPM() is stdGetRPM changes neither
C35_WrapKeepsRevolutionTime ==
    /\ [](ToothOneTimesUnusable
            => \A isCamTeeth \in BOOLEAN, z \in DivZeroOutcomes :
                  stdGetRPM(isCamTeeth, z) = [ret |-> currentStatus.RPM, rev |-> Rev])
    /\ [][(ToothOneTimesUnusable /\ GetRPMIsStd)
            => UNCHANGED <<revVars, currentStatus>>]_vars

\* The timer wrapped between the last two sightings of tooth one while
\* synced and above cranking speed, and the stored revolution time is not
\* the one the two times give
C35_Witness ==
    /\ HasAnySync
    /\ ~IsCranking
    /\ GetRPMIsStd
    /\ toothOneMinusOneTime /= 0
    /\ ULt(toothOneTime, toothOneMinusOneTime)
    /\ SetRevolutionTimeChanged(RevTimeFromTeeth(configPage4.TrigSpeed = CAM_SPEED))

\* ------------------------------------------------------------------------
\* The restart specification: the dual wheel decoder on an engine that
\* stops and is turned again with the controller powered throughout. The
\* main loop keeps polling while the engine stands.
\* ------------------------------------------------------------------------

\* The time from the last primary tooth before the stop to the first one
\* after it: 2^31 us, a little under 36 minutes. Twice that is 2^32.
RestartGap == I32Min

\* How long the main loop has polled when the engine is ToothGap away from
\* its first tooth
RestartWait == I32Max - (ToothGap - 1)

\* How long after the stop edges are followed
RestartMaxTime == 16000

\* The stop is over
Restarted == ULe(USub(USub(now, bootTime), RestartWait), RestartMaxTime)

\* The main loop at the end of the stop, one tooth after the last
MainLoopStallPoll_restart ==
    /\ decoder = "DualWheel"
    /\ toothLastToothTime = now
    /\ ULe(USub(now, bootTime), MaxTime)
    /\ MainLoopStallPollAt(UAdd(now, RestartWait))

\* An edge d after the event before, once the engine turns again
EdgeArrivesRestarted(d) ==
    /\ Restarted
    /\ ULe(USub(USub(UAdd(now, d), bootTime), RestartWait), RestartMaxTime)
    /\ noiseTicks' = noiseTicks

triggerPri_DualWheel_restart ==
    /\ decoder = "DualWheel"
    /\ EdgeArrivesRestarted(ToothGap)
    /\ triggerPri_DualWheel_at(UAdd(now, ToothGap))

triggerSec_DualWheel_restart ==
    /\ decoder = "DualWheel"
    /\ EdgeArrivesRestarted(ToothGap)
    /\ triggerSec_DualWheel_at(UAdd(now, ToothGap))

RestartConfigs ==
    {Config("DECODER_DUAL_WHEEL", 2, 0, speed, 2, 0, "IGN_MODE_SEQUENTIAL", 10, "SEC_TRIGGER_SINGLE") :
        speed \in {CRANK_SPEED, CAM_SPEED}}

InitRestart == InitQuiet({BootMicros}, RestartConfigs)

NextRestart ==
    \/ DualWell_triggerSetup
    \/ triggerPri_DualWheel
    \/ triggerSec_DualWheel
    \/ MainLoopStallPoll
    \/ MainLoopStallPoll_restart
    \/ triggerPri_DualWheel_restart
    \/ triggerSec_DualWheel_restart

SpecRestart == InitRestart /\ [][NextRestart]_vars

\* getRPM() of the attached decoder is a call of crankingGetRPM
GetRPMIsCranking ==
    /\ currentStatus.RPM < currentStatus.crankRPM
    /\ decoder = "DualWheel" => currentStatus.hasSync
    /\ decoder = "missingTooth" => toothCurrentCount /= 1

LaterThan(a, b) == USub(a, b) > 0

\* No primary edge has arrived since triggerSec_DualWheel established sync:
\* the last tooth time is the one that secondary pulse wrote, later than
\* the last primary edge
NoPrimarySinceSync ==
    /\ decoder = "DualWheel"
    /\ currentStatus.hasSync
    /\ LaterThan(toothLastToothTime, curTime)

\* C37: the first primary edge after the secondary pulse that established
\* sync finds the primary filter at 0 and is accepted, sets toothCurrentCount
\* to 1 and toothOneTime to its time, and flips revolutionOne from true to
\* false
C37_FirstPrimaryAfterSync ==
    [][(PriEdgeStep /\ NoPrimarySinceSync)
         => /\ triggerFilterTime = 0
            /\ toothLastToothTime' = curTime'
            /\ toothCurrentCount' = 1
            /\ toothOneTime' = curTime'
            /\ revolutionOne
            /\ ~revolutionOne']_vars

\* The first primary edge after the pulse that established sync has been
\* handled: the last tooth time but one is the one that pulse wrote
C37_Witness ==
    /\ decoder = "DualWheel"
    /\ currentStatus.hasSync
    /\ curTime2 /= 0
    /\ USub(toothLastMinusOneToothTime, curTime2) \in MicrosSteps
    /\ toothLastToothTime = curTime
    /\ LaterThan(curTime, curTime2)
    /\ toothCurrentCount = 1
    /\ toothOneTime = curTime
    /\ ~revolutionOne

\* ------------------------------------------------------------------------
\* The secondary input specification: the dual wheel decoder of a running
\* engine whose secondary input keeps seeing edges for ever, while the main
\* loop calls getRPM(). Edges follow each other closely for a while after
\* every LiveEpoch, so that the timer goes round and the states stay finite.
\* ------------------------------------------------------------------------

\* 2^30 us: a quarter of the range of the timer
LiveEpoch == (I32Max \div 2) + 1

\* How long after the start of an epoch edges follow each other closely
LiveMaxTime == 11000

\* The time since the start of the epoch
TimeInEpoch(t) == USub(t, bootTime) % LiveEpoch

\* A secondary edge d after the event before
EdgeArrivesLive(d) ==
    /\ d /= LiveEpoch => TimeInEpoch(now) <= TimeInEpoch(UAdd(now, d)) /\ TimeInEpoch(UAdd(now, d)) <= LiveMaxTime
    /\ d = NoiseGap => noiseTicks < MaxNoise
    /\ noiseTicks' = IF d = NoiseGap THEN noiseTicks + 1 ELSE noiseTicks

triggerSec_DualWheel_live ==
    /\ decoder = "DualWheel"
    /\ \E d \in Gaps \cup {LiveEpoch} : EdgeArrivesLive(d) /\ triggerSec_DualWheel_at(UAdd(now, d))

InitSecLive ==
    /\ InitRpm
    /\ decoder = "DualWheel"
    /\ currentStatus.hasSync
    /\ currentStatus.startRevolutions > configPage4.StgCycles
    /\ toothOneMinusOneTime /= 40000

NextSecLive == triggerSec_DualWheel_live \/ MainLoopGetRPM

SpecSecLive == InitSecLive /\ [][NextSecLive]_vars /\ WF_vars(triggerSec_DualWheel_live)

\* The last secondary edge of the dual wheel decoder was rejected
SecLastRejected == decoder = "DualWheel" /\ curTime2 /= toothLastSecToothTime

\* C38 as stated: after a rejected secondary edge, a secondary edge at least
\* revolutionTime / 2 after the last accepted one is accepted
C38_SecAcceptedAfterHalfRevolution ==
    [][(SecEdgeStep /\ SecLastRejected /\ UGe(USub(curTime2', toothLastSecToothTime), UShr(revolutionTime, 1)))
         => toothLastSecToothTime' = curTime2']_vars

\* C38, amended: a rejected secondary edge leaves triggerSecFilterTime at
\* half the revolutionTime that call read; nothing but the next secondary
\* edge changes the filter or the time of the last accepted edge; a
\* secondary edge whose gap to the last accepted one is at least the filter
\* is accepted; and while secondary edges keep arriving, a rejected edge is
\* always followed by an accepted one
C38_SecFilterReleases ==
    /\ [][(SecEdgeStep /\ toothLastSecToothTime' /= curTime2')
            => triggerSecFilterTime' = UShr(revolutionTime, 1)]_vars
    /\ [][(decoder = "DualWheel" /\ ~SecEdgeStep)
            => UNCHANGED <<triggerSecFilterTime, toothLastSecToothTime>>]_vars
    /\ [][(SecEdgeStep /\ UGe(USub(curTime2', toothLastSecToothTime), triggerSecFilterTime))
            => toothLastSecToothTime' = curTime2']_vars
    /\ (SecLastRejected ~> ~SecLastRejected)

\* A secondary edge has been rejected and the main loop has changed
\* revolutionTime since: the filter is half the revolution time that was
\* stored when the edge came
C38_Witness ==
    /\ SecLastRejected
    /\ ULt(curGap2, triggerSecFilterTime)
    /\ triggerSecFilterTime /= UShr(revolutionTime, 1)
    /\ \E stored \in StoredRpms : triggerSecFilterTime = UShr(stored.revolutionTime, 1)

\* ------------------------------------------------------------------------
\* The DataFilter specification: one object of each size, and calls of
\* queue_insert_data
\* ------------------------------------------------------------------------

\* The sizes a DataFilter is constructed with
DataFilterSizes == 1 .. DataFilterCapacity

\* How many queue_insert_data calls are followed
MaxInserts == 34

\* The reading handed to the k-th call of queue_insert_data: any 16 in a row
\* differ
InsertedValue(k) == ((k * 7) % 23) - 11

\* Everything but the DataFilter object
decoderVars == <<configPage2, configPage4, configPage6, configPage10, CRANK_ANGLE_MAX, bootTime, currentStatus, now, noiseTicks, priVars, secVars, setupVars, revolutionOne, decoderState, revVars, endToothVars, angleVars, timingAdjust, thirdVars, mainLoopVars>>

\* DataFilter(size)
DataFilter_construct ==
    /\ dataFilter = NoDataFilter
    /\ \E size \in DataFilterSizes, garbage \in GarbageValues : dataFilter' = DataFilter(size, garbage)
    /\ UNCHANGED decoderVars

\* queue_insert_data(data)
DataFilter_queue_insert_data ==
    /\ dataFilter.size_ /= 0
    /\ dataFilter.inserts < MaxInserts
    /\ dataFilter' = queue_insert_data(dataFilter, InsertedValue(dataFilter.inserts + 1))
    /\ UNCHANGED decoderVars

DataFilterConfigs ==
    {Config("DECODER_DUAL_WHEEL", 2, 0, CRANK_SPEED, 2, 0, "IGN_MODE_SEQUENTIAL", 10, "SEC_TRIGGER_SINGLE")}

InitDataFilterSpec == InitQuiet({BootMicros}, DataFilterConfigs)

NextDataFilter == DataFilter_construct \/ DataFilter_queue_insert_data

SpecDataFilter == InitDataFilterSpec /\ [][NextDataFilter]_vars

\* C39: for a DataFilter of size 1 .. 16, after any number of
\* queue_insert_data calls it_ini_ and it_end_ are below size_; the queue is
\* FULL exactly from the size_-th call on; and while FULL, it_ini_ = it_end_
\* and data_ holds, from it_ini_ round the ring, the last size_ values
\* inserted in the order they came
C39_RingBuffer ==
    dataFilter.size_ \in DataFilterSizes
        => /\ dataFilter.it_ini_ < dataFilter.size_
           /\ dataFilter.it_end_ < dataFilter.size_
           /\ (dataFilter.q_status_ = FULL) <=> (dataFilter.inserts >= dataFilter.size_)
           /\ dataFilter.q_status_ = FULL
                => /\ dataFilter.it_ini_ = dataFilter.it_end_
                   /\ \A j \in 0 .. dataFilter.size_ - 1 :
                         dataFilter.data_[(dataFilter.it_ini_ + j) % dataFilter.size_]
                            = InsertedValue(dataFilter.inserts - dataFilter.size_ + 1 + j)

\* A DataFilter of more than one element has gone round its ring and is
\* part of the way round again
C39_Witness ==
    /\ dataFilter.size_ > 1
    /\ dataFilter.q_status_ = FULL
    /\ dataFilter.inserts > 2 * dataFilter.size_
    /\ dataFilter.it_ini_ /= 0
====
